---- MODULE Spec2Model ----
(***************************************************************************)
(* FlashAuth: the token authority (FlashAuth.validateToken, revokeToken,   *)
(* revokeUser), the in-memory revocation store and the validation cache.   *)
(*                                                                         *)
(* Optional claim fields are sequences of length 0 (absent) or 1 (the      *)
(* value), so that JavaScript truthiness ("" and 0 count as absent) is     *)
(* something the model computes.  Times are Date.now() milliseconds; the   *)
(* claims use whole seconds, Math.floor(Date.now() / 1000).                *)
(***************************************************************************)
EXTENDS Integers, Sequences, FiniteSets, TLC

VARIABLES now, maxSize, ttl, cache, revokedTokens, revokedUsers,
          pc, call, last, ghost, maxRevoked, fill, calls, serial,
          args, outcome, builder, wire, probe, db, generated, requests

vars == <<now, maxSize, ttl, cache, revokedTokens, revokedUsers,
          pc, call, last, ghost, maxRevoked, fill, calls, serial,
          args, outcome, builder, wire, probe, db, generated, requests>>

(***************************************************************************)
(* Bounds of the model.                                                    *)
(***************************************************************************)
StartNow == 1000
ClockStep == 500
MaxNow == 3000
AuthMaxSize == 1
AuthTtl == 1500
MaxCacheSize == 3
CacheTtl == 1000

MsPerSecond == 1000

Seconds(ms) == ms \div MsPerSecond

(***************************************************************************)
(* Claims: StandardClaims as carried on the wire and the Claims class.     *)
(***************************************************************************)
None == <<>>

Some(v) == <<v>>

TruthyStr(opt) == opt # None /\ opt[1] # ""

TruthyNum(opt) == opt # None /\ opt[1] # 0

StandardClaims(sub, exp, iat, nbf, jti, iss, aud) ==
    [sub |-> sub, exp |-> exp, iat |-> iat, nbf |-> nbf, jti |-> jti,
     iss |-> iss, aud |-> aud]

\* new Claims(raw): sub, exp, iat copied; the optional fields only when truthy
NewClaims(raw) ==
    [sub |-> raw.sub, exp |-> raw.exp, iat |-> raw.iat,
     nbf |-> IF TruthyNum(raw.nbf) THEN raw.nbf ELSE None,
     jti |-> IF TruthyStr(raw.jti) THEN raw.jti ELSE None,
     iss |-> IF TruthyStr(raw.iss) THEN raw.iss ELSE None,
     aud |-> raw.aud]

\* expired from the second of expiry on
isExpiredAtExpiry(claims, clockSkew, t) == claims.exp <= Seconds(t) - clockSkew

isExpired(claims, clockSkew, t) == claims.exp < Seconds(t) - clockSkew

isNotYetValid(claims, clockSkew, t) ==
    IF ~TruthyNum(claims.nbf) THEN FALSE
    ELSE claims.nbf[1] > Seconds(t) + clockSkew

ValidationOptions(clockSkew, validateExpiry, minIssuedAt, requiredAudience, requiredIssuer) ==
    [clockSkew |-> clockSkew, validateExpiry |-> validateExpiry,
     minIssuedAt |-> minIssuedAt, requiredAudience |-> requiredAudience,
     requiredIssuer |-> requiredIssuer]

DefaultOptions == ValidationOptions(0, TRUE, 0, "", "")

\* validateClaims with the not-before check made ahead of the expiry check
validateClaimsNotBeforeFirst(claims, options, t) ==
    IF isNotYetValid(claims, options.clockSkew, t)
        THEN "Token is not yet valid"
    ELSE IF options.validateExpiry /\ isExpired(claims, options.clockSkew, t)
        THEN "Token has expired"
    ELSE IF options.minIssuedAt # 0 /\ claims.iat < options.minIssuedAt
        THEN "Token issued too long ago"
    ELSE IF options.requiredAudience # "" /\ options.requiredAudience \notin claims.aud
        THEN "Token audience does not include"
    ELSE IF options.requiredIssuer # "" /\ claims.iss # Some(options.requiredIssuer)
        THEN "Token issuer does not match"
    ELSE ""

\* validateClaims: "" when every check passes, else the message of the
\* ValidationError thrown by the first failing check
validateClaims(claims, options, t) ==
    IF options.validateExpiry /\ isExpired(claims, options.clockSkew, t)
        THEN "Token has expired"
    ELSE IF isNotYetValid(claims, options.clockSkew, t)
        THEN "Token is not yet valid"
    ELSE IF options.minIssuedAt # 0 /\ claims.iat < options.minIssuedAt
        THEN "Token issued too long ago"
    ELSE IF options.requiredAudience # "" /\ options.requiredAudience \notin claims.aud
        THEN "Token audience does not include"
    ELSE IF options.requiredIssuer # "" /\ claims.iss # Some(options.requiredIssuer)
        THEN "Token issuer does not match"
    ELSE ""

(***************************************************************************)
(* Token strings.  A token is its prefix, the key its payload was sealed   *)
(* with and the claims sealed in it.                                       *)
(***************************************************************************)
PASETO_V4_LOCAL_HEADER == "v4.local."

AuthorityKey == "k1"

Token(header, sealKey, claims) == [header |-> header, sealKey |-> sealKey, claims |-> claims]

TokenA == Token(PASETO_V4_LOCAL_HEADER, "k1",
                StandardClaims("u1", 1, 1, None, Some("j1"), Some("a"), {"x"}))

TokenB == Token(PASETO_V4_LOCAL_HEADER, "k1",
                StandardClaims("u1", 3, 2, Some(0), Some("j2"), Some("b"), {}))

TokenC == Token(PASETO_V4_LOCAL_HEADER, "k1",
                StandardClaims("u2", 2, 1, Some(2), Some(""), None, {"x", "y"}))

TokenWrongKey == Token(PASETO_V4_LOCAL_HEADER, "k2",
                       StandardClaims("u1", 3, 1, None, Some("j1"), Some("a"), {"x"}))

TokenMalformed == Token("v4.public.", "k1",
                        StandardClaims("u2", 3, 1, None, None, None, {}))

ValidTokens == {TokenA, TokenB, TokenC}

Tokens == ValidTokens \cup {TokenWrongKey, TokenMalformed}

Subjects == {"u1", "u2"}

Jtis == {"j1"}

RevokeExpiries == {1, 3}

OptionChoices ==
    {DefaultOptions,
     ValidationOptions(0, FALSE, 0, "", ""),
     ValidationOptions(1, TRUE, 0, "", ""),
     ValidationOptions(0, TRUE, 2, "", ""),
     ValidationOptions(0, TRUE, 0, "y", ""),
     ValidationOptions(0, TRUE, 0, "", "a")}

\* outcome of a call: the claims returned, or the class of the error thrown
Returned(claims) == [kind |-> "claims", claims |-> claims, msg |-> ""]

Thrown(class, msg) == [kind |-> class, claims |-> None, msg |-> msg]

NoResult == [kind |-> "none", claims |-> None, msg |-> ""]

\* parseToken: the claims sealed in the token, or TokenInvalidError
parseToken(token, key) ==
    IF token.header # PASETO_V4_LOCAL_HEADER
        THEN Thrown("TokenInvalidError", "Invalid token format")
    ELSE IF token.sealKey # key
        THEN Thrown("TokenInvalidError", "Failed to parse token")
    ELSE Returned(token.claims)

\* TokenParser.parse
parse(token, key, options, t) ==
    LET raw == parseToken(token, key) IN
    IF raw.kind # "claims" THEN raw
    ELSE LET claims == NewClaims(raw.claims)
             msg == validateClaims(claims, options, t) IN
         IF msg # "" THEN Thrown("ValidationError", msg) ELSE Returned(claims)

(***************************************************************************)
(* TokenCache: a Map in insertion order, as a sequence of entries.         *)
(***************************************************************************)
CacheEntry(token, claims, expiresAt) == [token |-> token, claims |-> claims, expiresAt |-> expiresAt]

CacheKeys(c) == {c[i].token : i \in 1..Len(c)}

CacheIndex(c, token) == CHOOSE i \in 1..Len(c) : c[i].token = token

\* Map.delete
MapDelete(c, token) == SelectSeq(c, LAMBDA e : e.token # token)

\* Map.set: a resident key keeps its place, a new key goes last
MapSet(c, entry) ==
    IF entry.token \in CacheKeys(c)
        THEN [c EXCEPT ![CacheIndex(c, entry.token)] = entry]
        ELSE Append(c, entry)

\* TokenCache.get of a least-recently-used cache: a hit moves the entry last
CacheGetTouch(c, token, t) ==
    IF token \notin CacheKeys(c) THEN [value |-> None, cache |-> c]
    ELSE LET cached == c[CacheIndex(c, token)] IN
         IF t > cached.expiresAt
             THEN [value |-> None, cache |-> MapDelete(c, token)]
             ELSE [value |-> Some(cached.claims), cache |-> Append(MapDelete(c, token), cached)]

\* TokenCache.get with the entry taken as expired from its expiry time on
CacheGetExpiredAtExpiry(c, token, t) ==
    IF token \notin CacheKeys(c) THEN [value |-> None, cache |-> c]
    ELSE LET cached == c[CacheIndex(c, token)] IN
         IF t >= cached.expiresAt
             THEN [value |-> None, cache |-> MapDelete(c, token)]
             ELSE [value |-> Some(cached.claims), cache |-> c]

\* TokenCache.get: the value returned (None for null) and the cache left
CacheGet(c, token, t) ==
    IF token \notin CacheKeys(c) THEN [value |-> None, cache |-> c]
    ELSE LET cached == c[CacheIndex(c, token)] IN
         IF t > cached.expiresAt
             THEN [value |-> None, cache |-> MapDelete(c, token)]
             ELSE [value |-> Some(cached.claims), cache |-> c]

\* TokenCache.set that evicts only once the cache is over its capacity
CacheSetEvictWhenOver(c, token, claims, t, size, life) ==
    LET evicted == IF Len(c) > size /\ Len(c) > 0 THEN Tail(c) ELSE c IN
    MapSet(evicted, CacheEntry(token, claims, t + life))

\* TokenCache.set
CacheSet(c, token, claims, t, size, life) ==
    LET evicted == IF Len(c) >= size /\ Len(c) > 0 THEN Tail(c) ELSE c IN
    MapSet(evicted, CacheEntry(token, claims, t + life))

\* TokenCache.invalidate
CacheInvalidate(c, token) == MapDelete(c, token)

\* TokenCache.clear
CacheClear(c) == <<>>

(***************************************************************************)
(* History kept beside the cache: for every resident token the time of the *)
(* set call that stored its entry, in the order the tokens became          *)
(* resident (first in, first out).                                         *)
(***************************************************************************)
GhostKeys(g) == {g[i].token : i \in 1..Len(g)}

GhostKeep(g, keys) == SelectSeq(g, LAMBDA e : e.token \in keys)

GhostSet(g, token, t, size) ==
    LET full == Len(g) >= size /\ Len(g) > 0
        g1 == IF full THEN Tail(g) ELSE g
        e == [token |-> token, at |-> t] IN
    IF token \in GhostKeys(g1)
        THEN [g1 EXCEPT ![CHOOSE i \in 1..Len(g1) : g1[i].token = token] = e]
        ELSE Append(g1, e)

GhostAt(g, token) == g[CHOOSE i \in 1..Len(g) : g[i].token = token].at

(***************************************************************************)
(* State after construction.                                               *)
(***************************************************************************)
NoCall == [token |-> TokenMalformed, options |-> DefaultOptions, claims |-> None,
           hit |-> FALSE, lookups |-> 0, ref |-> NoResult]

\* evicted: the keys of the entries the operation removed (from the cache,
\* or by cleanup from the store)
Last(op, token, options, result, hit, ref, evicted) ==
    [op |-> op, token |-> token, options |-> options, result |-> result,
     hit |-> hit, ref |-> ref, evicted |-> evicted]

NoLast == Last("none", TokenMalformed, DefaultOptions, NoResult, FALSE, NoResult, {})

\* a slot for a validateToken call in flight: where it waits, the claims it
\* holds and the value of the lookup it is awaiting; clean records whether,
\* at some instant since the call started, neither its token id nor its
\* subject was recorded as revoked
Slots == {"c1", "c2"}

IdleCall == [pc |-> "idle", token |-> TokenMalformed, claims |-> None,
             revoked |-> FALSE, clean |-> FALSE]

\* the calls in flight of the specification of concurrent calls, the
\* arguments and result of a function called on its own, and the builder
Apart == UNCHANGED <<calls, serial, args, outcome, builder, wire, probe, db, generated, requests>>

\* no token string made yet, none presented
NoWire == [made |-> FALSE, token |-> <<>>, boxes |-> {}]
NoProbe == [token |-> <<>>, edit |-> "none"]

WireIdle == UNCHANGED <<wire, probe>>

\* the authority, its store and its cache left alone
AuthorityIdle ==
    UNCHANGED <<maxSize, ttl, cache, revokedTokens, revokedUsers, pc, call, last,
                ghost, maxRevoked, fill, calls, serial, db, generated, requests>>

NoArgs == [claims |-> StandardClaims("", 0, 0, None, None, None, {}), options |-> DefaultOptions]

\* TokenBuilder fields: the partial claims (an optional field is None until
\* set; iat is a number)
BuilderClaims(sub, exp, iat, roles, perms) ==
    [sub |-> sub, exp |-> exp, iat |-> iat, roles |-> roles, perms |-> perms]

NoBuilder == [claims |-> BuilderClaims(None, None, 0, None, None), duration |-> None]

NothingApplied ==
    /\ args = NoArgs
    /\ outcome = NoResult
    /\ builder = NoBuilder

(***************************************************************************)
(* The auth plugin's password reset: the password_reset_tokens and users   *)
(* tables behind the DatabaseConnection, and the routes                    *)
(* /password-reset/request and /password-reset/confirm.  A confirm request *)
(* runs one database statement per stretch, other requests running in      *)
(* between at its awaits.                                                  *)
(***************************************************************************)
ResetUsers == {"u1", "u2"}

ResetTokenStrings == {"t1", "t2"}

\* config.security.requireNumber is set
NewPasswords == {"Password1", "Password2", "password"}

WithNumber == {"Password1", "Password2"}

\* config.tokenExpiration.passwordReset
ResetExpirationSeconds == 1

ResetRequests == {"r1", "r2"}

\* Bun.password.hash, the salt left out
hashPassword(password) == [algorithm |-> "bcrypt", password |-> password]

validatePasswordStrength(password) == password \in WithNumber

ResetRow(userId, token, expiresAt) == [user_id |-> userId, token |-> token, expires_at |-> expiresAt]

\* PasswordResetService.createResetToken: the table after the INSERT
createResetToken(rows, userId, token, t) ==
    rows \cup {ResetRow(userId, token, t + (ResetExpirationSeconds * MsPerSecond))}

Verification(valid, userId, error) == [valid |-> valid, userId |-> userId, error |-> error]

\* PasswordResetService.verifyToken (token is UNIQUE in the table)
verifyToken(rows, token, t) ==
    LET found == {row \in rows : row.token = token} IN
    IF found = {} THEN Verification(FALSE, None, "Invalid reset token")
    ELSE LET tokenRecord == CHOOSE row \in found : TRUE IN
         IF t > tokenRecord.expires_at
             THEN Verification(FALSE, None, "Reset token has expired")
         ELSE Verification(TRUE, Some(tokenRecord.user_id), "")

deleteToken(rows, token) == {row \in rows : row.token # token}

deleteUserTokens(rows, userId) == {row \in rows : row.user_id # userId}

\* a request that has not arrived
NoRequest == [pc |-> "none", token |-> "", newPassword |-> "", userId |-> None,
              changed |-> FALSE, response |-> None]

Response(success, error) == Some([success |-> success, error |-> error])

NoDb == [password_reset_tokens |-> {},
         users |-> [u \in ResetUsers |-> hashPassword("Password0")]]

InitAuthority ==
    /\ maxSize = AuthMaxSize
    /\ ttl = AuthTtl

InitCommon ==
    /\ db = NoDb
    /\ generated = {}
    /\ requests = [r \in ResetRequests |-> NoRequest]
    /\ wire = NoWire
    /\ probe = NoProbe
    /\ calls = [s \in Slots |-> IdleCall]
    /\ serial = [tokens |-> <<>>, users |-> {}]
    /\ now = StartNow
    /\ cache = <<>>
    /\ revokedTokens = [j \in {} |-> 0]
    /\ revokedUsers = {}
    /\ pc = "idle"
    /\ call = NoCall
    /\ last = NoLast
    /\ ghost = <<>>
    /\ maxRevoked = [j \in Jtis |-> 0]
    /\ fill = {}

\* Date.now() moves on between calls
AdvanceClock ==
    /\ pc = "idle"
    /\ now + ClockStep <= MaxNow
    /\ now' = now + ClockStep
    /\ last' = NoLast
    /\ fill' = fill
    /\ UNCHANGED <<maxSize, ttl, cache, revokedTokens, revokedUsers, pc, call, ghost, maxRevoked>>
    /\ Apart

(***************************************************************************)
(* The cache on its own: set, get, invalidate and clear called directly.   *)
(***************************************************************************)
CacheFrame ==
    /\ UNCHANGED <<now, maxSize, ttl, revokedTokens, revokedUsers, pc, call, maxRevoked>>
    /\ Apart

CacheSetOp(token) ==
    /\ cache' = CacheSet(cache, token, token.claims, now, maxSize, ttl)
    /\ ghost' = GhostSet(ghost, token, now, maxSize)
    /\ last' = Last("set", token, DefaultOptions, NoResult, token \in CacheKeys(cache), NoResult,
                    CacheKeys(cache) \ CacheKeys(cache'))
    /\ fill' = IF cache = <<>> THEN {token}
               ELSE IF fill # {} /\ token \notin fill THEN fill \cup {token}
               ELSE {}
    /\ CacheFrame

CacheGetOp(token) ==
    LET got == CacheGet(cache, token, now) IN
    /\ cache' = got.cache
    /\ ghost' = GhostKeep(ghost, CacheKeys(got.cache))
    /\ last' = Last("get", token, DefaultOptions,
                    IF got.value = None THEN NoResult ELSE Returned(got.value[1]),
                    got.value # None, NoResult, CacheKeys(cache) \ CacheKeys(got.cache))
    /\ fill' = {}
    /\ CacheFrame

CacheInvalidateOp(token) ==
    /\ cache' = CacheInvalidate(cache, token)
    /\ ghost' = GhostKeep(ghost, CacheKeys(cache'))
    /\ last' = Last("invalidate", token, DefaultOptions, NoResult, FALSE, NoResult,
                    CacheKeys(cache) \ CacheKeys(cache'))
    /\ fill' = {}
    /\ CacheFrame

CacheClearOp ==
    /\ cache' = CacheClear(cache)
    /\ ghost' = <<>>
    /\ last' = Last("clear", TokenMalformed, DefaultOptions, NoResult, FALSE, NoResult, CacheKeys(cache))
    /\ fill' = {}
    /\ CacheFrame

InitCache ==
    /\ InitCommon
    /\ NothingApplied
    /\ maxSize \in 0..MaxCacheSize
    /\ ttl = CacheTtl

NextCache ==
    \/ AdvanceClock
    \/ \E token \in Tokens : CacheSetOp(token)
    \/ \E token \in Tokens : CacheGetOp(token)
    \/ \E token \in Tokens : CacheInvalidateOp(token)
    \/ CacheClearOp

SpecCache == InitCache /\ [][NextCache]_vars

(***************************************************************************)
(* InMemoryRevocationStore: revokedTokens maps a token id to the expiry    *)
(* given at revocation, revokedUsers is a set of subjects.                 *)
(***************************************************************************)
StoreRevoke(tokens, jti, expiresAt) ==
    [j \in DOMAIN tokens \cup {jti} |-> IF j = jti THEN expiresAt ELSE tokens[j]]

isRevoked(tokens, jti) == jti \in DOMAIN tokens

StoreRevokeUser(users, userId) == users \cup {userId}

isUserRevoked(users, userId) == userId \in users

\* cleanup that also drops the entries expiring in the current second
StoreCleanupThroughNow(tokens, t) ==
    [j \in {k \in DOMAIN tokens : ~(tokens[k] <= Seconds(t))} |-> tokens[j]]

StoreCleanup(tokens, t) ==
    [j \in {k \in DOMAIN tokens : ~(tokens[k] < Seconds(t))} |-> tokens[j]]

(***************************************************************************)
(* The revocation store on its own: revoke, revokeUser and cleanup called  *)
(* directly.                                                               *)
(***************************************************************************)
StoreJtis == {"j1", "j2"}

StoreExpiries == {1, 2, 3}

StoreOnlyFrame ==
    /\ UNCHANGED <<now, maxSize, ttl, cache, pc, call, ghost, maxRevoked, fill>>
    /\ Apart

StoreOp(op, removed) == Last(op, TokenMalformed, DefaultOptions, NoResult, FALSE, NoResult, removed)

StoreRevokeOp(jti, expiresAt) ==
    /\ revokedTokens' = StoreRevoke(revokedTokens, jti, expiresAt)
    /\ last' = StoreOp("revoke", {})
    /\ UNCHANGED revokedUsers
    /\ StoreOnlyFrame

StoreRevokeUserOp(userId) ==
    /\ revokedUsers' = StoreRevokeUser(revokedUsers, userId)
    /\ last' = StoreOp("revokeUser", {})
    /\ UNCHANGED revokedTokens
    /\ StoreOnlyFrame

StoreCleanupOp ==
    /\ revokedTokens' = StoreCleanup(revokedTokens, now)
    /\ last' = StoreOp("cleanup", DOMAIN revokedTokens \ DOMAIN revokedTokens')
    /\ UNCHANGED revokedUsers
    /\ StoreOnlyFrame

InitStore ==
    /\ InitCommon
    /\ NothingApplied
    /\ InitAuthority

NextStore ==
    \/ AdvanceClock
    \/ \E jti \in StoreJtis, expiresAt \in StoreExpiries : StoreRevokeOp(jti, expiresAt)
    \/ \E userId \in Subjects : StoreRevokeUserOp(userId)
    \/ StoreCleanupOp

SpecStore == InitStore /\ [][NextStore]_vars

(***************************************************************************)
(* FlashAuth.validateToken, in the three stretches its code falls into:    *)
(* cache probe and parse, token-id revocation, subject revocation.  An     *)
(* authority is its key, its stores and its cache (enableCache FALSE:      *)
(* tokenCache is undefined).                                               *)
(***************************************************************************)
Authority(enableCache, c, size, life, tokens, users) ==
    [key |-> AuthorityKey, enableCache |-> enableCache, cache |-> c,
     maxSize |-> size, ttl |-> life, revokedTokens |-> tokens, revokedUsers |-> users]

Stage(done, result, claims, hit, inserted, lookups, c) ==
    [done |-> done, result |-> result, claims |-> claims, hit |-> hit,
     inserted |-> inserted, lookups |-> lookups, cache |-> c]

\* CachePhase with the entry stored as soon as the token has decoded, before
\* validateClaims has run
CachePhaseCacheBeforeValidate(a, token, options, t) ==
    LET got == IF a.enableCache THEN CacheGet(a.cache, token, t)
               ELSE [value |-> None, cache |-> a.cache]
        raw == parseToken(token, a.key)
        parsed == parse(token, a.key, options, t)
        stored == IF a.enableCache /\ raw.kind = "claims"
                      THEN CacheSet(got.cache, token, NewClaims(raw.claims), t, a.maxSize, a.ttl)
                      ELSE got.cache IN
    IF got.value # None
        THEN Stage(FALSE, NoResult, got.value, TRUE, FALSE, 0, got.cache)
    ELSE IF parsed.kind # "claims"
        THEN Stage(TRUE, parsed, None, FALSE, FALSE, 0, stored)
    ELSE Stage(FALSE, NoResult, Some(parsed.claims), FALSE, a.enableCache, 0, stored)

\* lines 113-126: the cached claims, or parse and cache
CachePhase(a, token, options, t) ==
    LET got == IF a.enableCache THEN CacheGet(a.cache, token, t)
               ELSE [value |-> None, cache |-> a.cache] IN
    IF got.value # None
        THEN Stage(FALSE, NoResult, got.value, TRUE, FALSE, 0, got.cache)
    ELSE LET parsed == parse(token, a.key, options, t) IN
         IF parsed.kind # "claims"
             THEN Stage(TRUE, parsed, None, FALSE, FALSE, 0, got.cache)
         ELSE IF a.enableCache
             THEN Stage(FALSE, NoResult, Some(parsed.claims), FALSE, TRUE, 0,
                        CacheSet(got.cache, token, parsed.claims, t, a.maxSize, a.ttl))
         ELSE Stage(FALSE, NoResult, Some(parsed.claims), FALSE, FALSE, 0, got.cache)

\* TokenRevocationPhase with the lookup left out for claims served from the cache
TokenRevocationPhaseSkipOnHit(a, token, claims, hit) ==
    IF ~hit /\ TruthyStr(claims.jti)
        THEN IF isRevoked(a.revokedTokens, claims.jti[1])
                 THEN Stage(TRUE, Thrown("TokenRevokedError", "Token has been revoked"),
                            Some(claims), hit, FALSE, 1,
                            IF a.enableCache THEN CacheInvalidate(a.cache, token) ELSE a.cache)
                 ELSE Stage(FALSE, NoResult, Some(claims), hit, FALSE, 1, a.cache)
        ELSE Stage(FALSE, NoResult, Some(claims), hit, FALSE, 0, a.cache)

\* TokenRevocationPhase with the entry left in the cache when the token id is revoked
TokenRevocationPhaseNoInvalidate(a, token, claims, hit) ==
    IF TruthyStr(claims.jti)
        THEN IF isRevoked(a.revokedTokens, claims.jti[1])
                 THEN Stage(TRUE, Thrown("TokenRevokedError", "Token has been revoked"),
                            Some(claims), hit, FALSE, 1, a.cache)
                 ELSE Stage(FALSE, NoResult, Some(claims), hit, FALSE, 1, a.cache)
        ELSE Stage(FALSE, NoResult, Some(claims), hit, FALSE, 0, a.cache)

\* lines 131-137 with the awaited lookup taken as never revoked
AfterIsRevokedIgnored(a, token, claims, hit, revoked) ==
    Stage(FALSE, NoResult, Some(claims), hit, FALSE, 1, a.cache)

\* lines 131-137: what follows the await of isRevoked, given its value
AfterIsRevoked(a, token, claims, hit, revoked) ==
    IF revoked
        THEN Stage(TRUE, Thrown("TokenRevokedError", "Token has been revoked"),
                   Some(claims), hit, FALSE, 1,
                   IF a.enableCache THEN CacheInvalidate(a.cache, token) ELSE a.cache)
        ELSE Stage(FALSE, NoResult, Some(claims), hit, FALSE, 1, a.cache)

\* lines 128-138: the token id, when the claims have one, is looked up
TokenRevocationPhase(a, token, claims, hit) ==
    IF TruthyStr(claims.jti)
        THEN AfterIsRevoked(a, token, claims, hit, isRevoked(a.revokedTokens, claims.jti[1]))
        ELSE Stage(FALSE, NoResult, Some(claims), hit, FALSE, 0, a.cache)

\* UserRevocationPhase with the lookup left out for claims served from the cache
UserRevocationPhaseSkipOnHit(a, token, claims, hit) ==
    IF ~hit /\ isUserRevoked(a.revokedUsers, claims.sub)
        THEN Stage(TRUE, Thrown("TokenRevokedError", "All user tokens have been revoked"),
                   Some(claims), hit, FALSE, 1,
                   IF a.enableCache THEN CacheInvalidate(a.cache, token) ELSE a.cache)
        ELSE Stage(TRUE, Returned(claims), Some(claims), hit, FALSE, IF hit THEN 0 ELSE 1, a.cache)

\* lines 142-150: what follows the await of isUserRevoked, given its value
AfterIsUserRevoked(a, token, claims, hit, revoked) ==
    IF revoked
        THEN Stage(TRUE, Thrown("TokenRevokedError", "All user tokens have been revoked"),
                   Some(claims), hit, FALSE, 1,
                   IF a.enableCache THEN CacheInvalidate(a.cache, token) ELSE a.cache)
        ELSE Stage(TRUE, Returned(claims), Some(claims), hit, FALSE, 1, a.cache)

\* lines 140-150: the subject is looked up, then the claims are returned
UserRevocationPhase(a, token, claims, hit) ==
    AfterIsUserRevoked(a, token, claims, hit, isUserRevoked(a.revokedUsers, claims.sub))

\* the whole call, for an authority nothing else is running on
validateToken(a, token, options, t) ==
    LET s1 == CachePhase(a, token, options, t) IN
    IF s1.done THEN s1
    ELSE LET s2 == TokenRevocationPhase([a EXCEPT !.cache = s1.cache], token, s1.claims[1], s1.hit) IN
         IF s2.done THEN s2
         ELSE UserRevocationPhase([a EXCEPT !.cache = s2.cache], token, s2.claims[1], s2.hit)

\* this authority, and the same authority constructed with enableCache: false
ThisAuthority == Authority(TRUE, cache, maxSize, ttl, revokedTokens, revokedUsers)

UncachedAuthority == Authority(FALSE, <<>>, maxSize, ttl, revokedTokens, revokedUsers)

AuthFrame ==
    /\ UNCHANGED <<now, maxSize, ttl, revokedTokens, revokedUsers, maxRevoked, fill>>
    /\ Apart

ValidateToken(token, options) ==
    LET s == CachePhase(ThisAuthority, token, options, now)
        ref == validateToken(UncachedAuthority, token, options, now).result IN
    /\ pc = "idle"
    /\ cache' = s.cache
    /\ ghost' = IF s.inserted
                    THEN GhostSet(GhostKeep(ghost, GhostKeys(ghost) \ {token}), token, now, maxSize)
                    ELSE GhostKeep(ghost, CacheKeys(s.cache))
    /\ IF s.done
           THEN /\ pc' = "idle"
                /\ call' = NoCall
                /\ last' = Last("validateToken", token, options, s.result, s.hit, ref,
                                 CacheKeys(cache) \ CacheKeys(s.cache))
           ELSE /\ pc' = "checkToken"
                /\ call' = [token |-> token, options |-> options, claims |-> s.claims,
                            hit |-> s.hit, lookups |-> s.lookups, ref |-> ref]
                /\ last' = NoLast
    /\ AuthFrame

CheckTokenRevoked ==
    LET s == TokenRevocationPhase(ThisAuthority, call.token, call.claims[1], call.hit) IN
    /\ pc = "checkToken"
    /\ cache' = s.cache
    /\ ghost' = GhostKeep(ghost, CacheKeys(s.cache))
    /\ IF s.done
           THEN /\ pc' = "idle"
                /\ call' = NoCall
                /\ last' = Last("validateToken", call.token, call.options, s.result, call.hit, call.ref,
                            CacheKeys(cache) \ CacheKeys(s.cache))
           ELSE /\ pc' = "checkUser"
                /\ call' = [call EXCEPT !.lookups = call.lookups + s.lookups]
                /\ last' = NoLast
    /\ AuthFrame

CheckUserRevoked ==
    LET s == UserRevocationPhase(ThisAuthority, call.token, call.claims[1], call.hit) IN
    /\ pc = "checkUser"
    /\ cache' = s.cache
    /\ ghost' = GhostKeep(ghost, CacheKeys(s.cache))
    /\ pc' = "idle"
    /\ call' = NoCall
    /\ last' = Last("validateToken", call.token, call.options, s.result, call.hit, call.ref,
                            CacheKeys(cache) \ CacheKeys(s.cache))
    /\ AuthFrame

StoreFrame ==
    /\ UNCHANGED <<now, maxSize, ttl, cache, pc, call, ghost, fill>>
    /\ Apart

RevokeToken(jti, expiresAt) ==
    /\ pc = "idle"
    /\ revokedTokens' = StoreRevoke(revokedTokens, jti, expiresAt)
    /\ maxRevoked' = [maxRevoked EXCEPT ![jti] = IF expiresAt > @ THEN expiresAt ELSE @]
    /\ last' = NoLast
    /\ UNCHANGED revokedUsers
    /\ StoreFrame

RevokeUser(userId) ==
    /\ pc = "idle"
    /\ revokedUsers' = StoreRevokeUser(revokedUsers, userId)
    /\ last' = NoLast
    /\ UNCHANGED <<revokedTokens, maxRevoked>>
    /\ StoreFrame

\* the store's interval timer, or the application, runs cleanup()
Cleanup ==
    /\ pc = "idle"
    /\ revokedTokens' = StoreCleanup(revokedTokens, now)
    /\ last' = NoLast
    /\ UNCHANGED <<revokedUsers, maxRevoked>>
    /\ StoreFrame

Init ==
    /\ InitCommon
    /\ NothingApplied
    /\ InitAuthority

Next ==
    \/ AdvanceClock
    \/ \E token \in Tokens, options \in OptionChoices : ValidateToken(token, options)
    \/ CheckTokenRevoked
    \/ CheckUserRevoked
    \/ \E jti \in Jtis, expiresAt \in RevokeExpiries : RevokeToken(jti, expiresAt)
    \/ \E userId \in Subjects : RevokeUser(userId)
    \/ Cleanup

Spec == Init /\ [][Next]_vars

(***************************************************************************)
(* FlashAuth.isTokenValid: validateToken with the default options inside   *)
(* a try block; the catch answers false for a TokenRevokedError and for a  *)
(* TokenExpiredError and throws every other error again.                   *)
(***************************************************************************)
Answered(value) == [kind |-> "boolean", claims |-> None, msg |-> IF value THEN "true" ELSE "false"]

\* the error classes the catch block of isTokenValid answers false for
AnsweredFalseFor == {"TokenRevokedError", "TokenExpiredError"}

isTokenValid(a, token, t) ==
    LET s == validateToken(a, token, DefaultOptions, t) IN
    [result |-> IF s.result.kind = "claims" THEN Answered(TRUE)
                ELSE IF s.result.kind \in AnsweredFalseFor THEN Answered(FALSE)
                ELSE s.result,
     hit |-> s.hit,
     cache |-> s.cache]

IsTokenValidOp(token) ==
    LET s == isTokenValid(ThisAuthority, token, now) IN
    /\ pc = "idle"
    /\ cache' = s.cache
    /\ last' = Last("isTokenValid", token, DefaultOptions, s.result, s.hit,
                    validateToken(ThisAuthority, token, DefaultOptions, now).result,
                    CacheKeys(cache) \ CacheKeys(s.cache))
    /\ UNCHANGED <<pc, call, ghost>>
    /\ AuthFrame

InitIsValid ==
    /\ InitCommon
    /\ NothingApplied
    /\ InitAuthority

NextIsValid ==
    \/ AdvanceClock
    \/ \E token \in Tokens : IsTokenValidOp(token)
    \/ \E jti \in Jtis, expiresAt \in RevokeExpiries : RevokeToken(jti, expiresAt)
    \/ \E userId \in Subjects : RevokeUser(userId)
    \/ Cleanup

SpecIsValid == InitIsValid /\ [][NextIsValid]_vars

(***************************************************************************)
(* Concurrent calls on one authority.  A validateToken call runs to its    *)
(* first await in one stretch: the cache probe, the parse and the cache    *)
(* insertion, then the call of isRevoked (or, without a token id, of       *)
(* isUserRevoked), whose body InMemoryRevocationStore runs at once; the    *)
(* value read is delivered when the call resumes.  Other calls and the     *)
(* clock run between the stretches.  revokeToken, revokeUser and cleanup   *)
(* change the store in the stretch that calls them.  serial is the store   *)
(* that running the store calls one after the other, in the order they     *)
(* were made, gives.                                                       *)
(***************************************************************************)
ConcTokens == {TokenA, TokenB, TokenC, TokenWrongKey}

NotRevoked(claims, tokens, users) ==
    /\ ~(TruthyStr(claims.jti) /\ isRevoked(tokens, claims.jti[1]))
    /\ ~isUserRevoked(users, claims.sub)

\* every call in flight sees the store as the step leaves it
Observe(cs, tokens, users) ==
    [s \in Slots |->
        IF cs[s].pc = "idle" THEN cs[s]
        ELSE [cs[s] EXCEPT !.clean = @ \/ NotRevoked(cs[s].claims[1], tokens, users)]]

ConcFrame ==
    UNCHANGED <<now, maxSize, ttl, pc, call, ghost, maxRevoked, fill, args, outcome, builder,
                wire, probe, db, generated, requests>>

ConcStart(s, token, options) ==
    LET st == CachePhase(ThisAuthority, token, options, now) IN
    /\ calls[s].pc = "idle"
    /\ cache' = st.cache
    /\ IF st.done
           THEN /\ calls' = calls
                /\ last' = Last("validateToken", token, options, st.result, st.hit, NoResult,
                                 CacheKeys(cache) \ CacheKeys(st.cache))
           ELSE LET claims == st.claims[1]
                    hasId == TruthyStr(claims.jti) IN
                /\ calls' = [calls EXCEPT ![s] =
                       [pc |-> IF hasId THEN "awaitIsRevoked" ELSE "awaitIsUserRevoked",
                        token |-> token, claims |-> st.claims,
                        revoked |-> IF hasId THEN isRevoked(revokedTokens, claims.jti[1])
                                    ELSE isUserRevoked(revokedUsers, claims.sub),
                        clean |-> NotRevoked(claims, revokedTokens, revokedUsers)]]
                /\ last' = NoLast
    /\ UNCHANGED <<revokedTokens, revokedUsers, serial>>
    /\ ConcFrame

ConcAfterIsRevoked(s) ==
    LET c == calls[s]
        st == AfterIsRevoked(ThisAuthority, c.token, c.claims[1], FALSE, c.revoked) IN
    /\ c.pc = "awaitIsRevoked"
    /\ cache' = st.cache
    /\ IF st.done
           THEN /\ calls' = [calls EXCEPT ![s] = IdleCall]
                /\ last' = Last("validateToken", c.token, DefaultOptions, st.result, FALSE, NoResult,
                                 CacheKeys(cache) \ CacheKeys(st.cache))
           ELSE /\ calls' = [calls EXCEPT ![s].pc = "awaitIsUserRevoked",
                                          ![s].revoked = isUserRevoked(revokedUsers, c.claims[1].sub)]
                /\ last' = NoLast
    /\ UNCHANGED <<revokedTokens, revokedUsers, serial>>
    /\ ConcFrame

ConcAfterIsUserRevoked(s) ==
    LET c == calls[s]
        st == AfterIsUserRevoked(ThisAuthority, c.token, c.claims[1], FALSE, c.revoked) IN
    /\ c.pc = "awaitIsUserRevoked"
    /\ cache' = st.cache
    /\ calls' = [calls EXCEPT ![s] = IdleCall]
    /\ last' = Last("validateToken", c.token, DefaultOptions, st.result, FALSE, NoResult,
                     CacheKeys(cache) \ CacheKeys(st.cache))
    /\ UNCHANGED <<revokedTokens, revokedUsers, serial>>
    /\ ConcFrame

ConcRevokeToken(jti, expiresAt) ==
    /\ revokedTokens' = StoreRevoke(revokedTokens, jti, expiresAt)
    /\ serial' = [serial EXCEPT !.tokens = StoreRevoke(@, jti, expiresAt)]
    /\ calls' = Observe(calls, revokedTokens', revokedUsers)
    /\ last' = NoLast
    /\ UNCHANGED <<revokedUsers, cache>>
    /\ ConcFrame

ConcRevokeUser(userId) ==
    /\ revokedUsers' = StoreRevokeUser(revokedUsers, userId)
    /\ serial' = [serial EXCEPT !.users = StoreRevokeUser(@, userId)]
    /\ calls' = Observe(calls, revokedTokens, revokedUsers')
    /\ last' = NoLast
    /\ UNCHANGED <<revokedTokens, cache>>
    /\ ConcFrame

ConcCleanup ==
    /\ revokedTokens' = StoreCleanup(revokedTokens, now)
    /\ serial' = [serial EXCEPT !.tokens = StoreCleanup(@, now)]
    /\ calls' = Observe(calls, revokedTokens', revokedUsers)
    /\ last' = NoLast
    /\ UNCHANGED <<revokedUsers, cache>>
    /\ ConcFrame

InitConc ==
    /\ InitCommon
    /\ NothingApplied
    /\ InitAuthority

NextConc ==
    \/ AdvanceClock
    \/ \E s \in Slots, token \in ConcTokens : ConcStart(s, token, DefaultOptions)
    \/ \E s \in Slots : ConcAfterIsRevoked(s)
    \/ \E s \in Slots : ConcAfterIsUserRevoked(s)
    \/ \E jti \in Jtis, expiresAt \in RevokeExpiries : ConcRevokeToken(jti, expiresAt)
    \/ \E userId \in Subjects : ConcRevokeUser(userId)
    \/ ConcCleanup

SpecConc == InitConc /\ [][NextConc]_vars

(***************************************************************************)
(* validateClaims called on its own, on a Claims instance and options      *)
(* drawn at the start; the result records the clock of the call.           *)
(***************************************************************************)
ClaimChoices ==
    {StandardClaims("u1", exp, iat, nbf, None, iss, aud) :
        exp \in {1, 2}, iat \in {1, 2}, nbf \in {None, Some(0), Some(3)},
        iss \in {None, Some("a"), Some("b")}, aud \in {{}, {"x"}}}

ValidateOptionChoices ==
    {ValidationOptions(clockSkew, validateExpiry, minIssuedAt, requiredAudience, requiredIssuer) :
        clockSkew \in {0, 1}, validateExpiry \in BOOLEAN, minIssuedAt \in {0, 2},
        requiredAudience \in {"", "x"}, requiredIssuer \in {"", "a"}}

Applied(kind, msg, t) == [kind |-> kind, claims |-> None, msg |-> msg, at |-> t]

ValidateClaimsOp ==
    LET msg == validateClaims(NewClaims(args.claims), args.options, now) IN
    /\ outcome' = Applied(IF msg = "" THEN "void" ELSE "ValidationError", msg, now)
    /\ UNCHANGED <<now, args, builder>>
    /\ WireIdle
    /\ AuthorityIdle

InitValidate ==
    /\ InitCommon
    /\ InitAuthority
    /\ args \in [claims : ClaimChoices, options : ValidateOptionChoices]
    /\ outcome = NoResult
    /\ builder = NoBuilder

NextValidate ==
    \/ AdvanceClock
    \/ ValidateClaimsOp

SpecValidate == InitValidate /\ [][NextValidate]_vars

(***************************************************************************)
(* TokenBuilder, made by FlashAuth.createToken.  A duration string is a    *)
(* sequence of characters.  builder.duration remembers the seconds of the  *)
(* duration the expiry was last set from (None when it was set as a        *)
(* number or not at all).                                                  *)
(***************************************************************************)
Digits == <<"0", "1", "2", "3", "4", "5", "6", "7", "8", "9">>

IsDigit(ch) == \E i \in 1..Len(Digits) : Digits[i] = ch

DigitValue(ch) == (CHOOSE i \in 1..Len(Digits) : Digits[i] = ch) - 1

RECURSIVE parseInt(_)
parseInt(digits) ==
    IF digits = <<>> THEN 0
    ELSE 10 * parseInt(SubSeq(digits, 1, Len(digits) - 1)) + DigitValue(digits[Len(digits)])

\* the unit table with a week counted as a day
SecondsPerUnitWeekAsDay(unit) ==
    CASE unit = "s" -> 1
      [] unit = "m" -> 60
      [] unit = "h" -> 60 * 60
      [] unit = "d" -> 60 * 60 * 24
      [] unit = "w" -> 60 * 60 * 24

SecondsPerUnit(unit) ==
    CASE unit = "s" -> 1
      [] unit = "m" -> 60
      [] unit = "h" -> 60 * 60
      [] unit = "d" -> 60 * 60 * 24
      [] unit = "w" -> 60 * 60 * 24 * 7

\* parseDuration: /^(\d+)([smhdw])$/, then the value times the unit
parseDuration(duration) ==
    LET n == Len(duration)
        match == /\ n >= 2
                 /\ \A i \in 1..(n - 1) : IsDigit(duration[i])
                 /\ duration[n] \in {"s", "m", "h", "d", "w"} IN
    IF ~match THEN Thrown("ValidationError", "Invalid duration format")
    ELSE [kind |-> "seconds", claims |-> None, msg |-> "",
          seconds |-> parseInt(SubSeq(duration, 1, n - 1)) * SecondsPerUnit(duration[n])]

RECURSIVE Dedup(_)
\* Array.from(new Set(list)): the first occurrence of every element, in order
Dedup(list) ==
    IF list = <<>> THEN <<>>
    ELSE LET init == Dedup(SubSeq(list, 1, Len(list) - 1))
             x == list[Len(list)] IN
         IF \E i \in 1..Len(init) : init[i] = x THEN init ELSE Append(init, x)

RolePermissions == [admin |-> <<"a", "b">>, user |-> <<"b", "c">>]

RECURSIVE RolePermsInOrder(_, _)
RolePermsInOrder(roles, table) ==
    IF roles = <<>> THEN <<>>
    ELSE (IF Head(roles) \in DOMAIN table THEN table[Head(roles)] ELSE <<>>)
         \o RolePermsInOrder(Tail(roles), table)

expandRolesToPermissions(roles, table) == Dedup(RolePermsInOrder(roles, table))

mergePermissions(roles, explicitPermissions, table) ==
    Dedup(expandRolesToPermissions(roles, table) \o explicitPermissions)

\* the call just made on the builder and what it returned or threw; for
\* expiresIn its argument, for build the clock (in seconds) it ran at
BuilderDid(op, arg, kind, msg) ==
    [op |-> op, arg |-> IF op = "expiresIn" THEN arg ELSE None, kind |-> kind, msg |-> msg,
     token |-> None, at |-> IF op = "build" THEN Seconds(now) ELSE 0]

BuilderFrame ==
    /\ UNCHANGED <<now, args>>
    /\ WireIdle
    /\ AuthorityIdle

\* the partial claims handed to FlashAuth.createToken
Partial(sub, exp, roles, perms) == [sub |-> sub, exp |-> exp, roles |-> roles, perms |-> perms]

\* FlashAuth.createToken(claims): a new builder, and the setters of the
\* truthy fields of claims
CreateToken(partial) ==
    /\ builder' =
          [claims |-> BuilderClaims(
                        IF TruthyStr(partial.sub) THEN partial.sub ELSE None,
                        IF TruthyNum(partial.exp) THEN partial.exp ELSE None,
                        Seconds(now),
                        partial.roles,
                        partial.perms),
           duration |-> None]
    /\ outcome' = BuilderDid("createToken", partial, "builder", "")
    /\ BuilderFrame

Made == builder.claims.iat # 0

subject(sub) ==
    /\ Made
    /\ builder' = [builder EXCEPT !.claims.sub = Some(sub)]
    /\ outcome' = BuilderDid("subject", sub, "this", "")
    /\ BuilderFrame

expiration(exp) ==
    /\ Made
    /\ builder' = [builder EXCEPT !.claims.exp = Some(exp), !.duration = None]
    /\ outcome' = BuilderDid("expiration", exp, "this", "")
    /\ BuilderFrame

expiresIn(duration) ==
    LET exp == parseDuration(duration) IN
    /\ Made
    /\ IF exp.kind = "seconds"
           THEN /\ builder' = [builder EXCEPT !.claims.exp = Some(Seconds(now) + exp.seconds),
                                              !.duration = Some(exp.seconds)]
                /\ outcome' = BuilderDid("expiresIn", duration, "this", "")
           ELSE /\ builder' = builder
                /\ outcome' = BuilderDid("expiresIn", duration, exp.kind, exp.msg)
    /\ BuilderFrame

roles(list) ==
    /\ Made
    /\ builder' = [builder EXCEPT !.claims.roles = Some(list)]
    /\ outcome' = BuilderDid("roles", list, "this", "")
    /\ BuilderFrame

permissions(perms) ==
    /\ Made
    /\ builder' = [builder EXCEPT !.claims.perms = Some(perms)]
    /\ outcome' = BuilderDid("permissions", perms, "this", "")
    /\ BuilderFrame

\* lines 124-129 with only an unset field taken as missing
MissingRequiredUnsetOnly(c) ==
    IF c.sub = None THEN "Subject (sub) is required"
    ELSE IF c.exp = None THEN "Expiration (exp) is required"
    ELSE ""

\* lines 124-129: the message of the ValidationError, "" when there is none
MissingRequired(c) ==
    IF ~TruthyStr(c.sub) THEN "Subject (sub) is required"
    ELSE IF ~TruthyNum(c.exp) THEN "Expiration (exp) is required"
    ELSE ""

\* build(): the merged permissions stay in this.claims
build ==
    LET c == builder.claims
        merged == IF c.roles # None /\ Len(c.roles[1]) > 0
                      THEN [c EXCEPT !.perms =
                               Some(mergePermissions(c.roles[1],
                                                     IF c.perms = None THEN <<>> ELSE c.perms[1],
                                                     RolePermissions))]
                      ELSE c IN
    /\ Made
    /\ IF MissingRequired(c) # ""
           THEN /\ builder' = builder
                /\ outcome' = BuilderDid("build", None, "ValidationError", MissingRequired(c))
           ELSE /\ builder' = [builder EXCEPT !.claims = merged]
                /\ outcome' = [BuilderDid("build", None, "token", "") EXCEPT
                                  !.token = Some(Token(PASETO_V4_LOCAL_HEADER, AuthorityKey, merged))]
    /\ BuilderFrame

Durations ==
    {<<"1", "0", "s">>, <<"2", "m">>, <<"1", "h">>, <<"1", "d">>, <<"1", "w">>,
     <<>>, <<"5">>, <<"h">>, <<"1", "x">>, <<"-", "1", "s">>, <<"1", "h", "h">>, <<"1", "H">>}

RoleLists == {<<>>, <<"user", "admin">>, <<"guest">>}

PermLists == {<<"c">>, <<"b", "d", "b">>}

Partials ==
    {Partial(None, None, None, None),
     Partial(Some("u1"), Some(5), None, None),
     Partial(Some(""), Some(0), Some(<<>>), Some(<<"b", "d", "b">>)),
     Partial(Some("u2"), None, Some(<<"admin">>), None)}

InitBuilder ==
    /\ InitCommon
    /\ InitAuthority
    /\ args = NoArgs
    /\ outcome = BuilderDid("none", None, "none", "")
    /\ builder = NoBuilder

NextBuilder ==
    \/ AdvanceClock
    \/ \E partial \in Partials : CreateToken(partial)
    \/ \E sub \in {"", "u1"} : subject(sub)
    \/ \E exp \in {0, 5} : expiration(exp)
    \/ \E duration \in Durations : expiresIn(duration)
    \/ \E list \in RoleLists : roles(list)
    \/ \E perms \in PermLists : permissions(perms)
    \/ build

SpecBuilder == InitBuilder /\ [][NextBuilder]_vars

(***************************************************************************)
(* PASETO v4.local on the wire (core/paseto.ts, core/cryptography.ts).  A  *)
(* string is a sequence of characters, a Uint8Array a sequence of numbers  *)
(* 0..255.                                                                 *)
(***************************************************************************)
\* the printable ASCII characters, from code 32 on (code 96 is spelled out)
AsciiChars ==
    <<" ", "!", "\"", "#", "$", "%", "&", "'", "(", ")", "*", "+", ",", "-", ".", "/",
      "0", "1", "2", "3", "4", "5", "6", "7", "8", "9", ":", ";", "<", "=", ">", "?",
      "@", "A", "B", "C", "D", "E", "F", "G", "H", "I", "J", "K", "L", "M", "N", "O",
      "P", "Q", "R", "S", "T", "U", "V", "W", "X", "Y", "Z", "[", "\\", "]", "^", "_",
      "grave", "a", "b", "c", "d", "e", "f", "g", "h", "i", "j", "k", "l", "m", "n", "o",
      "p", "q", "r", "s", "t", "u", "v", "w", "x", "y", "z", "{", "|", "}", "~">>

CharCode == [ch \in {AsciiChars[i] : i \in 1..Len(AsciiChars)} |->
                31 + CHOOSE i \in 1..Len(AsciiChars) : AsciiChars[i] = ch]

\* new TextEncoder().encode(str), for strings of printable ASCII
TextEncode(str) == [i \in 1..Len(str) |-> CharCode[str[i]]]

\* new TextDecoder().decode(bytes): bytes that are no printable ASCII
\* character show as "?" here
TextDecode(bytes) ==
    [i \in 1..Len(bytes) |->
        IF bytes[i] - 31 \in 1..Len(AsciiChars) THEN AsciiChars[bytes[i] - 31] ELSE "?"]

\* the base64 alphabet of RFC 4648
Base64Chars ==
    <<"A", "B", "C", "D", "E", "F", "G", "H", "I", "J", "K", "L", "M", "N", "O", "P",
      "Q", "R", "S", "T", "U", "V", "W", "X", "Y", "Z", "a", "b", "c", "d", "e", "f",
      "g", "h", "i", "j", "k", "l", "m", "n", "o", "p", "q", "r", "s", "t", "u", "v",
      "w", "x", "y", "z", "0", "1", "2", "3", "4", "5", "6", "7", "8", "9", "+", "/">>

Base64Value == [ch \in {Base64Chars[i] : i \in 1..Len(Base64Chars)} |->
                   (CHOOSE i \in 1..Len(Base64Chars) : Base64Chars[i] = ch) - 1]

ReplaceChar(str, from, to) == [i \in 1..Len(str) |-> IF str[i] = from THEN to ELSE str[i]]

RemoveChar(str, ch) == SelectSeq(str, LAMBDA c : c # ch)

RECURSIVE BufferToBase64(_)
\* Buffer.from(data).toString('base64')
BufferToBase64(data) ==
    IF data = <<>> THEN <<>>
    ELSE IF Len(data) = 1
        THEN <<Base64Chars[(data[1] \div 4) + 1], Base64Chars[(data[1] % 4) * 16 + 1], "=", "=">>
    ELSE IF Len(data) = 2
        THEN <<Base64Chars[(data[1] \div 4) + 1],
               Base64Chars[(data[1] % 4) * 16 + (data[2] \div 16) + 1],
               Base64Chars[(data[2] % 16) * 4 + 1], "=">>
    ELSE <<Base64Chars[(data[1] \div 4) + 1],
           Base64Chars[(data[1] % 4) * 16 + (data[2] \div 16) + 1],
           Base64Chars[(data[2] % 16) * 4 + (data[3] \div 64) + 1],
           Base64Chars[(data[3] % 64) + 1]>>
         \o BufferToBase64(SubSeq(data, 4, Len(data)))

base64urlEncode(data) ==
    RemoveChar(ReplaceChar(ReplaceChar(BufferToBase64(data), "+", "-"), "/", "_"), "=")

RECURSIVE SextetsToBytes(_)
SextetsToBytes(v) ==
    IF Len(v) < 2 THEN <<>>
    ELSE IF Len(v) = 2 THEN <<v[1] * 4 + (v[2] \div 16)>>
    ELSE IF Len(v) = 3 THEN <<v[1] * 4 + (v[2] \div 16), (v[2] % 16) * 16 + (v[3] \div 4)>>
    ELSE <<v[1] * 4 + (v[2] \div 16), (v[2] % 16) * 16 + (v[3] \div 4), (v[3] % 4) * 64 + v[4]>>
         \o SextetsToBytes(SubSeq(v, 5, Len(v)))

\* the part of str before the first "=", the whole of it when there is none
UpToPadding(str) ==
    IF \E i \in 1..Len(str) : str[i] = "="
        THEN SubSeq(str, 1, (CHOOSE i \in 1..Len(str) :
                                str[i] = "=" /\ \A j \in 1..(i - 1) : str[j] # "=") - 1)
        ELSE str

\* Buffer.from(base64, 'base64'): decoding stops at the first "=", either
\* alphabet is read, characters of neither are skipped, and the bits of a
\* last character that fill no byte are dropped
Base64ToBuffer(base64) ==
    LET read == ReplaceChar(ReplaceChar(UpToPadding(base64), "-", "+"), "_", "/")
        legal == SelectSeq(read, LAMBDA c : c \in DOMAIN Base64Value) IN
    SextetsToBytes([i \in 1..Len(legal) |-> Base64Value[legal[i]]])

base64urlDecode(str) ==
    LET base64 == ReplaceChar(ReplaceChar(str, "-", "+"), "_", "/")
        padding == (4 - (Len(base64) % 4)) % 4 IN
    Base64ToBuffer(base64 \o [i \in 1..padding |-> "="])

(***************************************************************************)
(* JSON.stringify and JSON.parse on the values a claims object is made of: *)
(* numbers (naturals), strings, arrays and objects (fields in insertion    *)
(* order).                                                                 *)
(***************************************************************************)
JsonNum(n) == [t |-> "num", n |-> n]
JsonStr(s) == [t |-> "str", s |-> s]
JsonArr(items) == [t |-> "arr", items |-> items]
JsonObj(fields) == [t |-> "obj", fields |-> fields]

RECURSIVE ToDigits(_)
ToDigits(n) ==
    IF n < 10 THEN <<Digits[n + 1]>> ELSE ToDigits(n \div 10) \o <<Digits[(n % 10) + 1]>>

RECURSIVE Escaped(_)
\* a quotation mark and a backslash are written behind a backslash
Escaped(s) ==
    IF s = <<>> THEN <<>>
    ELSE (IF s[1] \in {"\"", "\\"} THEN <<"\\", s[1]>> ELSE <<s[1]>>) \o Escaped(Tail(s))

\* a string written between quotation marks as it is
QuotedUnescaped(s) == <<"\"">> \o s \o <<"\"">>

Quoted(s) == <<"\"">> \o Escaped(s) \o <<"\"">>

RECURSIVE JSONStringify(_), StringifyItems(_), StringifyFields(_)
JSONStringify(value) ==
    CASE value.t = "num" -> ToDigits(value.n)
      [] value.t = "str" -> Quoted(value.s)
      [] value.t = "arr" -> <<"[">> \o StringifyItems(value.items) \o <<"]">>
      [] value.t = "obj" -> <<"{">> \o StringifyFields(value.fields) \o <<"}">>

StringifyItems(items) ==
    IF items = <<>> THEN <<>>
    ELSE JSONStringify(items[1])
         \o (IF Len(items) > 1 THEN <<",">> \o StringifyItems(Tail(items)) ELSE <<>>)

StringifyFields(fields) ==
    IF fields = <<>> THEN <<>>
    ELSE Quoted(fields[1][1]) \o <<":">> \o JSONStringify(fields[1][2])
         \o (IF Len(fields) > 1 THEN <<",">> \o StringifyFields(Tail(fields)) ELSE <<>>)

\* a parse step gives the value read and the text behind it, or no value
Parsed(value, rest) == [ok |-> TRUE, value |-> value, rest |-> rest]
SyntaxError == [ok |-> FALSE]

StartsWith(text, ch) == text # <<>> /\ text[1] = ch

RECURSIVE ParseDigits(_, _)
ParseDigits(digits, text) ==
    IF text # <<>> /\ IsDigit(text[1]) THEN ParseDigits(Append(digits, text[1]), Tail(text))
    ELSE Parsed(JsonNum(parseInt(digits)), text)

RECURSIVE ParseChars(_, _)
\* the characters of a string up to its closing quotation mark
ParseChars(chars, text) ==
    IF text = <<>> THEN SyntaxError
    ELSE IF text[1] = "\"" THEN Parsed(JsonStr(chars), Tail(text))
    ELSE IF text[1] = "\\"
        THEN IF Len(text) < 2 THEN SyntaxError
             ELSE ParseChars(Append(chars, text[2]), SubSeq(text, 3, Len(text)))
    ELSE ParseChars(Append(chars, text[1]), Tail(text))

RECURSIVE ParseValue(_), ParseItems(_, _), ParseFields(_, _)
ParseValue(text) ==
    IF text = <<>> THEN SyntaxError
    ELSE IF IsDigit(text[1]) THEN ParseDigits(<<>>, text)
    ELSE IF text[1] = "\"" THEN ParseChars(<<>>, Tail(text))
    ELSE IF text[1] = "["
        THEN IF StartsWith(Tail(text), "]")
                THEN Parsed(JsonArr(<<>>), SubSeq(text, 3, Len(text)))
                ELSE ParseItems(<<>>, Tail(text))
    ELSE IF text[1] = "{"
        THEN IF StartsWith(Tail(text), "}")
                THEN Parsed(JsonObj(<<>>), SubSeq(text, 3, Len(text)))
                ELSE ParseFields(<<>>, Tail(text))
    ELSE SyntaxError

ParseItems(items, text) ==
    LET item == ParseValue(text) IN
    IF ~item.ok THEN SyntaxError
    ELSE IF StartsWith(item.rest, ",")
        THEN ParseItems(Append(items, item.value), Tail(item.rest))
    ELSE IF StartsWith(item.rest, "]")
        THEN Parsed(JsonArr(Append(items, item.value)), Tail(item.rest))
    ELSE SyntaxError

ParseFields(fields, text) ==
    LET name == IF StartsWith(text, "\"") THEN ParseChars(<<>>, Tail(text)) ELSE SyntaxError
        value == IF name.ok /\ StartsWith(name.rest, ":")
                    THEN ParseValue(Tail(name.rest)) ELSE SyntaxError IN
    IF ~value.ok THEN SyntaxError
    ELSE IF StartsWith(value.rest, ",")
        THEN ParseFields(Append(fields, <<name.value.s, value.value>>), Tail(value.rest))
    ELSE IF StartsWith(value.rest, "}")
        THEN Parsed(JsonObj(Append(fields, <<name.value.s, value.value>>)), Tail(value.rest))
    ELSE SyntaxError

\* JSON.parse(text): the value when text is one JSON value and nothing more
JSONParse(text) ==
    LET read == ParseValue(text) IN
    IF read.ok /\ read.rest = <<>> THEN read ELSE SyntaxError

(***************************************************************************)
(* core/cryptography.ts.  A key is its length and its secret; the nonce    *)
(* that generateNonce draws is an input of encryptLocal.  XChaCha20-       *)
(* Poly1305 is an ideal authenticated cipher: the sealed bytes are a       *)
(* function of key, nonce, associated data and message, and they open      *)
(* only under the key, nonce and associated data they were sealed with.    *)
(***************************************************************************)
KeyBytes == 32
NonceBytes == 24
TagBytes == 16
MinEncryptedBytes == 40

SecretKey(secret) == [length |-> KeyBytes, secret |-> secret]

RECURSIVE LittleEndian(_, _)
LittleEndian(n, width) ==
    IF width = 0 THEN <<>> ELSE <<n % 256>> \o LittleEndian(n \div 256, width - 1)

\* le64 with the most significant byte first
le64BigEndian(n) == [i \in 1..8 |-> LittleEndian(n, 8)[9 - i]]

le64(n) == LittleEndian(n, 8)

RECURSIVE preAuthEncodePieces(_)
preAuthEncodePieces(pieces) ==
    IF pieces = <<>> THEN <<>>
    ELSE le64(Len(pieces[1])) \o pieces[1] \o preAuthEncodePieces(Tail(pieces))

preAuthEncode(pieces) == le64(Len(pieces)) \o preAuthEncodePieces(pieces)

RECURSIVE SumOf(_)
SumOf(bytes) == IF bytes = <<>> THEN 0 ELSE bytes[1] + SumOf(Tail(bytes))

\* cipher.encrypt(message): the ciphertext, as long as the message, and the tag
Seal(key, nonce, aad, message) ==
    [i \in 1..Len(message) |->
        (message[i] + key.secret + nonce[((i - 1) % NonceBytes) + 1] + i) % 256]
    \o [j \in 1..TagBytes |->
        (SumOf(message) + SumOf(aad) + SumOf(nonce) + key.secret * j) % 256]

Box(key, nonce, aad, message) ==
    [key |-> key, nonce |-> nonce, aad |-> aad, message |-> message,
     sealed |-> Seal(key, nonce, aad, message)]

Encrypted(bytes, box) == [ok |-> TRUE, bytes |-> bytes, box |-> box]
Decrypted(bytes) == [ok |-> TRUE, bytes |-> bytes]
CryptographyError(msg) == [ok |-> FALSE, msg |-> msg]

LocalPae(nonce, footer) ==
    preAuthEncode(<<TextEncode(<<"v", "4", ".", "l", "o", "c", "a", "l", ".">>), nonce, footer, <<>>>>)

encryptLocal(message, key, footer, nonce) ==
    IF key.length # KeyBytes THEN CryptographyError("Key must be 32 bytes")
    ELSE LET pae == LocalPae(nonce, footer)
             box == Box(key, nonce, pae, message) IN
         Encrypted(nonce \o box.sealed, box)

\* boxes: what has been sealed so far
decryptLocal(encrypted, key, footer, boxes) ==
    IF key.length # KeyBytes THEN CryptographyError("Key must be 32 bytes")
    ELSE IF Len(encrypted) < MinEncryptedBytes
        THEN CryptographyError("Invalid encrypted data: too short")
    ELSE LET nonce == SubSeq(encrypted, 1, NonceBytes)
             sealed == SubSeq(encrypted, NonceBytes + 1, Len(encrypted))
             pae == LocalPae(nonce, footer)
             opens == {b \in boxes : b.key = key /\ b.nonce = nonce
                                     /\ b.aad = pae /\ b.sealed = sealed} IN
         IF opens = {} THEN CryptographyError("Decryption failed")
         ELSE Decrypted((CHOOSE b \in opens : TRUE).message)

(***************************************************************************)
(* core/paseto.ts: the token string.  A footer is None or Some(string).    *)
(***************************************************************************)
HeaderChars == <<"v", "4", ".", "l", "o", "c", "a", "l", ".">>

TruthyChars(opt) == opt # None /\ opt[1] # <<>>

Created(token, box) == [ok |-> TRUE, token |-> token, box |-> box]

createToken(claims, key, footer, nonce) ==
    LET message == TextEncode(JSONStringify(claims))
        footerBytes == IF TruthyChars(footer) THEN TextEncode(footer[1]) ELSE <<>>
        encrypted == encryptLocal(message, key, footerBytes, nonce) IN
    IF ~encrypted.ok THEN encrypted
    ELSE Created(HeaderChars \o base64urlEncode(encrypted.bytes)
                 \o (IF TruthyChars(footer)
                        THEN <<".">> \o base64urlEncode(footerBytes) ELSE <<>>),
                 encrypted.box)

RECURSIVE Split(_, _)
\* str.split(sep)
Split(str, sep) ==
    IF \E i \in 1..Len(str) : str[i] = sep
        THEN LET i == CHOOSE k \in 1..Len(str) :
                        str[k] = sep /\ \A j \in 1..(k - 1) : str[j] # sep IN
             <<SubSeq(str, 1, i - 1)>> \o Split(SubSeq(str, i + 1, Len(str)), sep)
        ELSE <<str>>

\* what parseToken gives: claims and footer, or the error raised, whose
\* message is msg followed by detail (the message of the error caught);
\* opened tells whether decryptLocal was called
TokenParsed(claims, footer) ==
    [kind |-> "ok", claims |-> Some(claims), footer |-> footer, msg |-> "", detail |-> "",
     opened |-> TRUE]

TokenRejected(msg, detail, opened) ==
    [kind |-> "TokenInvalidError", claims |-> None, footer |-> None, msg |-> msg,
     detail |-> detail, opened |-> opened]

\* parseToken of core/paseto.ts on the token string
parseTokenString(token, key, boxes) ==
    IF Len(token) < Len(HeaderChars) \/ SubSeq(token, 1, Len(HeaderChars)) # HeaderChars
        THEN TokenRejected("Invalid token format: must start with v4.local.", "", FALSE)
    ELSE LET withoutHeader == SubSeq(token, Len(HeaderChars) + 1, Len(token))
             parts == Split(withoutHeader, ".") IN
         IF Len(parts) < 1 \/ Len(parts) > 2
             THEN TokenRejected("Invalid token format: incorrect number of parts", "", FALSE)
         ELSE LET payloadStr == parts[1]
                  footerStr == IF Len(parts) > 1 THEN Some(parts[2]) ELSE None IN
              IF payloadStr = <<>>
                  THEN TokenRejected("Invalid token format: empty payload", "", FALSE)
              ELSE LET encrypted == base64urlDecode(payloadStr)
                       footerBytes == IF TruthyChars(footerStr)
                                         THEN base64urlDecode(footerStr[1]) ELSE <<>>
                       decrypted == decryptLocal(encrypted, key, footerBytes, boxes)
                       claims == IF decrypted.ok
                                    THEN JSONParse(TextDecode(decrypted.bytes))
                                    ELSE SyntaxError IN
                   IF ~decrypted.ok \/ ~claims.ok
                       THEN TokenRejected("Failed to parse token: ",
                                          IF decrypted.ok THEN "SyntaxError" ELSE decrypted.msg,
                                          TRUE)
                   ELSE TokenParsed(claims.value,
                                    IF TruthyChars(footerStr)
                                        THEN Some(TextDecode(footerBytes)) ELSE None)

(***************************************************************************)
(* Specification SpecCodec: one token is created from the drawn claims,    *)
(* key and footer; the string is then presented to parseToken as it is or  *)
(* with one edit.                                                          *)
(***************************************************************************)
WireClaims ==
    { JsonObj(<< <<<<"s", "u", "b">>, JsonStr(<<"u", "1">>)>>,
                 <<<<"e", "x", "p">>, JsonNum(1)>>,
                 <<<<"i", "a", "t">>, JsonNum(1)>> >>),
      JsonObj(<< <<<<"s", "u", "b">>, JsonStr(<<"u", "2">>)>>,
                 <<<<"e", "x", "p">>, JsonNum(20)>>,
                 <<<<"i", "a", "t">>, JsonNum(3)>>,
                 <<<<"x">>, JsonObj(<< <<<<"y">>, JsonArr(<<JsonNum(1),
                                                           JsonStr(<<"a", "\"", "b">>)>>)>> >>)>> >>) }

SealingKey == SecretKey(7)
OtherKey == SecretKey(8)
ShortKey == [length |-> 16, secret |-> 7]

WireFooters == {None, Some(<<>>), Some(<<"f">>)}

Nonces == { [i \in 1..NonceBytes |-> (i * 37) % 256],
            [i \in 1..NonceBytes |-> 255 - ((i * i) % 7)] }

NotParsed == [op |-> "none", key |-> SealingKey, result |-> TokenRejected("", "", FALSE)]

CodecFrame ==
    /\ UNCHANGED <<now, args, builder>>
    /\ AuthorityIdle

CreateTokenOp(nonce) ==
    LET made == createToken(args.claims, args.key, args.footer, nonce) IN
    /\ ~wire.made
    /\ made.ok
    /\ wire' = [made |-> TRUE, token |-> made.token, boxes |-> {made.box}]
    /\ probe' = [token |-> made.token, edit |-> "none"]
    /\ UNCHANGED outcome
    /\ CodecFrame

\* where the segments of the made token lie
PayloadStart == Len(HeaderChars) + 1

HasFooterSegment(token) == \E i \in PayloadStart..Len(token) : token[i] = "."

PayloadEnd(token) ==
    IF HasFooterSegment(token)
        THEN (CHOOSE i \in PayloadStart..Len(token) : token[i] = ".") - 1
        ELSE Len(token)

Region(token, i) ==
    IF i < PayloadStart THEN "prefix"
    ELSE IF i <= PayloadEnd(token) THEN "payload"
    ELSE IF i = PayloadEnd(token) + 1 THEN "separator"
    ELSE "footer"

NextBase64Char(ch) ==
    IF ch \in DOMAIN Base64Value THEN Base64Chars[((Base64Value[ch] + 1) % 64) + 1] ELSE "A"

\* the characters put in the place of ch
EditChars(ch) == {"A", "+", "/", ".", "=", NextBase64Char(ch)} \ {ch}

Untouched == wire.made /\ probe.edit = "none" /\ outcome.op = "none"

EditFrame ==
    /\ UNCHANGED <<wire, outcome>>
    /\ CodecFrame

\* one character of the string replaced
ChangeCharOp(i, ch) ==
    /\ Untouched
    /\ i \in 1..Len(wire.token)
    /\ ch \in EditChars(wire.token[i])
    /\ probe' = [token |-> [wire.token EXCEPT ![i] = ch], edit |-> Region(wire.token, i)]
    /\ EditFrame

\* the footer segment and its dot taken away
DropFooterOp ==
    /\ Untouched
    /\ HasFooterSegment(wire.token)
    /\ probe' = [token |-> SubSeq(wire.token, 1, PayloadEnd(wire.token)),
                 edit |-> "footerRemoved"]
    /\ EditFrame

AddedSegments == {<<>>, <<"A">>, <<"Z", "g">>}

\* a dot and a segment put behind the string
AppendSegmentOp(segment) ==
    /\ Untouched
    /\ probe' = [token |-> wire.token \o <<".">> \o segment,
                 edit |-> IF HasFooterSegment(wire.token) THEN "segmentAdded"
                                                          ELSE "footerAdded"]
    /\ EditFrame

\* the payload segment taken away
DropPayloadOp ==
    /\ Untouched
    /\ probe' = [token |-> HeaderChars \o SubSeq(wire.token, PayloadEnd(wire.token) + 1,
                                                 Len(wire.token)),
                 edit |-> "payloadRemoved"]
    /\ EditFrame

ParseKeys == {SealingKey, OtherKey, ShortKey}

ParseTokenOp(key) ==
    /\ wire.made
    /\ outcome' = [op |-> "parseToken", key |-> key,
                   result |-> parseTokenString(probe.token, key, wire.boxes)]
    /\ UNCHANGED <<wire, probe>>
    /\ CodecFrame

InitCodec ==
    /\ InitCommon
    /\ InitAuthority
    /\ builder = NoBuilder
    /\ outcome = NotParsed
    /\ args \in [claims : WireClaims, key : {SealingKey}, footer : WireFooters]

NextCodec ==
    \/ \E nonce \in Nonces : CreateTokenOp(nonce)
    \/ \E i \in 1..Len(wire.token), ch \in {"A", "+", "/", ".", "="}
                                          \cup {Base64Chars[k] : k \in 1..Len(Base64Chars)} :
          ChangeCharOp(i, ch)
    \/ DropFooterOp
    \/ \E segment \in AddedSegments : AppendSegmentOp(segment)
    \/ DropPayloadOp
    \/ \E key \in ParseKeys : ParseTokenOp(key)

SpecCodec == InitCodec /\ [][NextCodec]_vars

(***************************************************************************)
(* utils/permission-utils.ts and the permission methods of Claims.  A      *)
(* permission is a string, a sequence of characters.                       *)
(***************************************************************************)
endsWith(str, suffix) ==
    Len(str) >= Len(suffix) /\ SubSeq(str, Len(str) - Len(suffix) + 1, Len(str)) = suffix

startsWith(str, prefix) ==
    Len(str) >= Len(prefix) /\ SubSeq(str, 1, Len(prefix)) = prefix

\* str.slice(0, -2)
SliceOffLastTwo(str) == SubSeq(str, 1, Len(str) - 2)

\* the wildcard rule without the colon behind the prefix
matchPermissionBarePrefix(permission, pattern) ==
    IF pattern = permission THEN TRUE
    ELSE IF pattern = <<"*">> THEN TRUE
    ELSE IF endsWith(pattern, <<":", "*">>)
        THEN startsWith(permission, SliceOffLastTwo(pattern))
    ELSE FALSE

matchPermission(permission, pattern) ==
    IF pattern = permission THEN TRUE
    ELSE IF pattern = <<"*">> THEN TRUE
    ELSE IF endsWith(pattern, <<":", "*">>)
        THEN startsWith(permission, SliceOffLastTwo(pattern) \o <<":">>)
    ELSE FALSE

\* permissions.some(perm => matchPermission(permission, perm))
hasPermission(perms, permission) ==
    \E i \in 1..Len(perms) : matchPermission(permission, perms[i])

hasAnyPermission(perms, required) ==
    \E i \in 1..Len(required) : hasPermission(perms, required[i])

hasAllPermissions(perms, required) ==
    \A i \in 1..Len(required) : hasPermission(perms, required[i])

RECURSIVE ClaimsPermsLoop(_, _)
\* the for loop of Claims.hasPermission over this.perms
ClaimsPermsLoop(perms, permission) ==
    IF perms = <<>> THEN FALSE
    ELSE IF perms[1] = <<"*">> THEN TRUE
    ELSE IF perms[1] = permission THEN TRUE
    ELSE IF /\ endsWith(perms[1], <<":", "*">>)
            /\ startsWith(permission, SliceOffLastTwo(perms[1]) \o <<":">>) THEN TRUE
    ELSE ClaimsPermsLoop(Tail(perms), permission)

\* Claims.hasPermission with an exact match only
ClaimsHasPermissionExact(perms, permission) ==
    perms # None /\ \E i \in 1..Len(perms[1]) : perms[1][i] = permission

\* Claims.hasPermission; perms is None or Some(list)
ClaimsHasPermission(perms, permission) ==
    IF perms = None \/ Len(perms[1]) = 0 THEN FALSE
    ELSE ClaimsPermsLoop(perms[1], permission)

ClaimsHasAnyPermission(perms, required) ==
    \E i \in 1..Len(required) : ClaimsHasPermission(perms, required[i])

ClaimsHasAllPermissions(perms, required) ==
    \A i \in 1..Len(required) : ClaimsHasPermission(perms, required[i])

IsLetterChar(ch) == CharCode[ch] \in (65..90) \cup (97..122)

IsNameChar(ch) == IsLetterChar(ch) \/ IsDigit(ch) \/ ch \in {"_", "-"}

\* /^[a-z][a-z0-9_-]*$/i.test(str)
NamePattern(str) ==
    /\ Len(str) >= 1
    /\ IsLetterChar(str[1])
    /\ \A i \in 2..Len(str) : IsNameChar(str[i])

\* the format check with the action left unchecked
validatePermissionFormatResourceOnly(permission) ==
    IF permission = <<"*">> THEN TRUE
    ELSE IF endsWith(permission, <<":", "*">>)
        THEN LET resource == SliceOffLastTwo(permission) IN
             Len(resource) > 0 /\ NamePattern(resource)
    ELSE LET parts == Split(permission, ":") IN
         IF Len(parts) # 2 THEN FALSE
         ELSE Len(parts[1]) > 0 /\ Len(parts[2]) > 0 /\ NamePattern(parts[1])

validatePermissionFormat(permission) ==
    IF permission = <<"*">> THEN TRUE
    ELSE IF endsWith(permission, <<":", "*">>)
        THEN LET resource == SliceOffLastTwo(permission) IN
             Len(resource) > 0 /\ NamePattern(resource)
    ELSE LET parts == Split(permission, ":") IN
         IF Len(parts) # 2 THEN FALSE
         ELSE /\ Len(parts[1]) > 0
              /\ Len(parts[2]) > 0
              /\ NamePattern(parts[1])
              /\ NamePattern(parts[2])

\* names every object literal inherits from Object.prototype (some of them)
ObjectPrototypeNames == {"constructor", "toString", "__proto__"}

\* rolePermissions[role] is neither a list of the table nor undefined: the
\* for...of over it throws TypeError
RoleLookupNotIterable(table, role) ==
    role \notin DOMAIN table /\ role \in ObjectPrototypeNames

expandRolesThrows(roleNames, table) ==
    \E i \in 1..Len(roleNames) : RoleLookupNotIterable(table, roleNames[i])

(***************************************************************************)
(* Specification SpecPermissions: one of the permission functions applied  *)
(* to inputs drawn from small sets of strings and lists.                   *)
(***************************************************************************)
MaxPermissionLen == 4
MaxPatternLen == 3
MaxFormatLen == 5
MaxListLen == 2

StringsUpTo(chars, n) == UNION {[1..k -> chars] : k \in 0..n}

MatchChars == {"p", "x", ":", "*"}
FormatChars == {"a", "Z", "7", "_", "-", ":", "*", "."}

HeldPatterns == {<<"*">>, <<"p", ":", "*">>, <<"p", ":", "r">>, <<"p", "x", ":", "*">>,
                 <<":", "*">>, <<"p">>}
Requested == {<<"p", ":", "r">>, <<"p", ":", "w">>, <<"p", "x", ":", "r">>, <<"p">>,
              <<":", "r">>, <<"*">>, <<"p", ":", "*">>}

HeldChoices == {None} \cup {Some(list) : list \in StringsUpTo(HeldPatterns, MaxListLen)}
RequestLists == StringsUpTo(Requested, MaxListLen)

MergeTable == [user |-> <<"a", "a", "b">>, admin |-> <<"b", "c">>]
MergeRoleNames == {"user", "admin", "guest", "constructor"}
MergeExplicit == {"a", "c", "x"}

NothingAsked == [op |-> "none"]

PermissionsFrame ==
    /\ UNCHANGED <<now, args, builder>>
    /\ WireIdle
    /\ AuthorityIdle

MatchPermissionOp(permission, pattern) ==
    /\ outcome' = [op |-> "matchPermission", permission |-> permission, pattern |-> pattern,
                   value |-> matchPermission(permission, pattern)]
    /\ PermissionsFrame

ValidatePermissionFormatOp(permission) ==
    /\ outcome' = [op |-> "validatePermissionFormat", permission |-> permission,
                   value |-> validatePermissionFormat(permission)]
    /\ PermissionsFrame

\* the method of Claims and the function of the engine on the same inputs;
\* the engine is given the held list when there is one
HasPermissionOp(held, permission) ==
    /\ outcome' = [op |-> "hasPermission", held |-> held, required |-> <<permission>>,
                   claims |-> ClaimsHasPermission(held, permission),
                   engine |-> IF held = None THEN None
                              ELSE Some(hasPermission(held[1], permission))]
    /\ PermissionsFrame

HasAnyPermissionOp(held, required) ==
    /\ outcome' = [op |-> "hasAnyPermission", held |-> held, required |-> required,
                   claims |-> ClaimsHasAnyPermission(held, required),
                   engine |-> IF held = None THEN None
                              ELSE Some(hasAnyPermission(held[1], required))]
    /\ PermissionsFrame

HasAllPermissionsOp(held, required) ==
    /\ outcome' = [op |-> "hasAllPermissions", held |-> held, required |-> required,
                   claims |-> ClaimsHasAllPermissions(held, required),
                   engine |-> IF held = None THEN None
                              ELSE Some(hasAllPermissions(held[1], required))]
    /\ PermissionsFrame

MergePermissionsOp(roleNames, explicit) ==
    /\ outcome' = [op |-> "mergePermissions", roleNames |-> roleNames, explicit |-> explicit,
                   kind |-> IF expandRolesThrows(roleNames, MergeTable) THEN "TypeError"
                            ELSE "list",
                   value |-> IF expandRolesThrows(roleNames, MergeTable) THEN <<>>
                             ELSE mergePermissions(roleNames, explicit, MergeTable)]
    /\ PermissionsFrame

InitPermissions ==
    /\ InitCommon
    /\ InitAuthority
    /\ args = NoArgs
    /\ builder = NoBuilder
    /\ outcome = NothingAsked

\* one call in a behaviour
Fresh == outcome = NothingAsked

NextPermissions ==
    \/ Fresh /\ \E permission \in StringsUpTo(MatchChars, MaxPermissionLen),
                   pattern \in StringsUpTo(MatchChars, MaxPatternLen) :
                   MatchPermissionOp(permission, pattern)
    \/ Fresh /\ \E permission \in StringsUpTo(FormatChars, MaxFormatLen) :
                   ValidatePermissionFormatOp(permission)
    \/ Fresh /\ \E held \in HeldChoices, permission \in Requested :
                   HasPermissionOp(held, permission)
    \/ Fresh /\ \E held \in HeldChoices, required \in RequestLists :
                   HasAnyPermissionOp(held, required)
    \/ Fresh /\ \E held \in HeldChoices, required \in RequestLists :
                   HasAllPermissionsOp(held, required)
    \/ Fresh /\ \E roleNames \in StringsUpTo(MergeRoleNames, MaxListLen),
                   explicit \in StringsUpTo(MergeExplicit, MaxListLen + 1) :
                   MergePermissionsOp(roleNames, explicit)

SpecPermissions == InitPermissions /\ [][NextPermissions]_vars

(***************************************************************************)
(* Specification SpecExpiry: Claims.isExpired called as the clock runs.    *)
(***************************************************************************)
Expiries == 0..4
ClockSkews == {0, 1, 2}

NotAsked == [op |-> "none", exp |-> 0, clockSkew |-> 0, at |-> 0, value |-> FALSE]

IsExpiredOp(exp, clockSkew) ==
    LET claims == NewClaims(StandardClaims("u1", exp, 1, None, None, None, {})) IN
    /\ outcome' = [op |-> "isExpired", exp |-> exp, clockSkew |-> clockSkew, at |-> now,
                   value |-> isExpired(claims, clockSkew, now)]
    /\ UNCHANGED <<now, args, builder>>
    /\ WireIdle
    /\ AuthorityIdle

InitExpiry ==
    /\ InitCommon
    /\ InitAuthority
    /\ args = NoArgs
    /\ builder = NoBuilder
    /\ outcome = NotAsked

NextExpiry ==
    \/ AdvanceClock
    \/ \E exp \in Expiries, clockSkew \in ClockSkews : IsExpiredOp(exp, clockSkew)

SpecExpiry == InitExpiry /\ [][NextExpiry]_vars

(***************************************************************************)
(* Specification SpecPae: preAuthEncode called on its own, and a message   *)
(* sealed by encryptLocal then opened by decryptLocal.                     *)
(***************************************************************************)
MaxPieces == 2
MaxPieceLen == 2

PaeBytes == {0, 1, 8}

PaePieces == StringsUpTo(PaeBytes, MaxPieceLen)

PaeMessages == {<<>>, <<1, 2>>}

PaeFooters == {<<>>, <<0>>, <<102>>}

PreAuthEncodeOp(pieces) ==
    /\ outcome' = [op |-> "preAuthEncode", pieces |-> pieces, encoded |-> preAuthEncode(pieces)]
    /\ PermissionsFrame

\* encryptLocal(message, key, footer), then decryptLocal of its bytes with
\* the footer presented
SealThenOpenOp(message, footer, presented, nonce) ==
    LET encrypted == encryptLocal(message, SealingKey, footer, nonce) IN
    /\ outcome' = [op |-> "sealThenOpen", message |-> message, footer |-> footer,
                   presented |-> presented, nonce |-> nonce, box |-> encrypted.box,
                   opened |-> decryptLocal(encrypted.bytes, SealingKey, presented,
                                           {encrypted.box})]
    /\ PermissionsFrame

InitPae == InitPermissions

NextPae ==
    \/ Fresh /\ \E pieces \in StringsUpTo(PaePieces, MaxPieces) : PreAuthEncodeOp(pieces)
    \/ Fresh /\ \E message \in PaeMessages, footer \in PaeFooters, presented \in PaeFooters,
                   nonce \in Nonces :
                   SealThenOpenOp(message, footer, presented, nonce)

SpecPae == InitPae /\ [][NextPae]_vars

(***************************************************************************)
(* Specification SpecReset: the password reset routes, two confirm         *)
(* requests in flight.                                                     *)
(***************************************************************************)
ResetFrame ==
    /\ UNCHANGED <<now, args, outcome, builder>>
    /\ WireIdle
    /\ UNCHANGED <<maxSize, ttl, cache, revokedTokens, revokedUsers, pc, call, last,
                   ghost, maxRevoked, fill, calls, serial>>

\* the clock of new Date() and Date.now()
ResetClock ==
    /\ now + ClockStep <= MaxNow
    /\ now' = now + ClockStep
    /\ UNCHANGED <<db, generated, requests, args, outcome, builder>>
    /\ WireIdle
    /\ UNCHANGED <<maxSize, ttl, cache, revokedTokens, revokedUsers, pc, call, last,
                   ghost, maxRevoked, fill, calls, serial>>

\* POST /password-reset/request for the email of an existing user;
\* generateSecureToken returns a string it has not returned before
PasswordResetRequest(userId, token) ==
    /\ token \notin generated
    /\ generated' = generated \cup {token}
    /\ db' = [db EXCEPT !.password_reset_tokens = createResetToken(@, userId, token, now)]
    /\ UNCHANGED requests
    /\ ResetFrame

\* POST /password-reset/confirm arrives and calls verifyToken
ConfirmArrives(r, token, newPassword) ==
    /\ requests[r].pc = "none"
    /\ requests' = [requests EXCEPT ![r] = [NoRequest EXCEPT !.pc = "verifyToken",
                                                       !.token = token,
                                                       !.newPassword = newPassword]]
    /\ UNCHANGED <<db, generated>>
    /\ ResetFrame

\* the SELECT of verifyToken runs and the route tests verification.valid
ConfirmVerifyToken(r) ==
    LET verification == verifyToken(db.password_reset_tokens, requests[r].token, now) IN
    /\ requests[r].pc = "verifyToken"
    /\ requests' = [requests EXCEPT ![r] =
           IF ~verification.valid
               THEN [@ EXCEPT !.pc = "done", !.response = Response(FALSE, verification.error)]
               ELSE [@ EXCEPT !.pc = "updatePassword", !.userId = verification.userId]]
    /\ UNCHANGED <<db, generated>>
    /\ ResetFrame

\* UserService.updatePassword: the strength check throws, or the UPDATE runs
ConfirmUpdatePassword(r) ==
    /\ requests[r].pc = "updatePassword"
    /\ IF ~validatePasswordStrength(requests[r].newPassword)
           THEN /\ requests' = [requests EXCEPT ![r] =
                       [@ EXCEPT !.pc = "done", !.response = Response(FALSE, "Error")]]
                /\ UNCHANGED db
           ELSE /\ db' = [db EXCEPT !.users[requests[r].userId[1]] =
                                        hashPassword(requests[r].newPassword)]
                /\ requests' = [requests EXCEPT ![r] =
                       [@ EXCEPT !.pc = "deleteToken", !.changed = TRUE]]
    /\ UNCHANGED generated
    /\ ResetFrame

ConfirmDeleteToken(r) ==
    /\ requests[r].pc = "deleteToken"
    /\ db' = [db EXCEPT !.password_reset_tokens = deleteToken(@, requests[r].token)]
    /\ requests' = [requests EXCEPT ![r].pc = "deleteUserTokens"]
    /\ UNCHANGED generated
    /\ ResetFrame

\* the last DELETE runs and the route answers success
ConfirmDeleteUserTokens(r) ==
    /\ requests[r].pc = "deleteUserTokens"
    /\ db' = [db EXCEPT !.password_reset_tokens = deleteUserTokens(@, requests[r].userId[1])]
    /\ requests' = [requests EXCEPT ![r] =
           [@ EXCEPT !.pc = "done", !.response = Response(TRUE, "")]]
    /\ UNCHANGED generated
    /\ ResetFrame

InitReset ==
    /\ InitCommon
    /\ NothingApplied
    /\ InitAuthority

NextReset ==
    \/ ResetClock
    \/ \E userId \in ResetUsers, token \in ResetTokenStrings : PasswordResetRequest(userId, token)
    \/ \E r \in ResetRequests, token \in ResetTokenStrings, newPassword \in NewPasswords :
          ConfirmArrives(r, token, newPassword)
    \/ \E r \in ResetRequests : ConfirmVerifyToken(r)
    \/ \E r \in ResetRequests : ConfirmUpdatePassword(r)
    \/ \E r \in ResetRequests : ConfirmDeleteToken(r)
    \/ \E r \in ResetRequests : ConfirmDeleteUserTokens(r)

SpecReset == InitReset /\ [][NextReset]_vars

(***************************************************************************)
(* Properties of the authority (specification Spec).  last is the outcome  *)
(* of the call that has just returned; any other operation clears it, so   *)
(* while last.op = "validateToken" the clock and the revocation store are  *)
(* the ones that call ran against.                                         *)
(***************************************************************************)
Validated == last.op = "validateToken"

Decodes(token) == parseToken(token, AuthorityKey).kind = "claims"

ClaimsOf(token) == NewClaims(token.claims)

TokenIdRevoked(token) ==
    /\ Decodes(token)
    /\ TruthyStr(ClaimsOf(token).jti)
    /\ isRevoked(revokedTokens, ClaimsOf(token).jti[1])

SubjectRevoked(token) ==
    /\ Decodes(token)
    /\ isUserRevoked(revokedUsers, ClaimsOf(token).sub)

PassesClaimsValidation == validateClaims(ClaimsOf(last.token), last.options, now) = ""

\* C1 as stated: a validateToken call on a token whose token id is recorded
\* as revoked always raises TokenRevokedError.
C1_RevokedRaisesRevokedError ==
    (Validated /\ TokenIdRevoked(last.token)) => last.result.kind = "TokenRevokedError"

\* C1 amended: a validateToken call on a token whose token id is recorded as
\* revoked never returns claims; it raises TokenRevokedError when the token
\* was served from the cache or passes claims validation under the options
\* of the call, and the ValidationError of the failing claims check when it
\* missed the cache and fails that validation.
C1_RevokedNeverAccepted ==
    (Validated /\ TokenIdRevoked(last.token)) =>
        /\ last.result.kind # "claims"
        /\ (last.hit \/ PassesClaimsValidation) => last.result.kind = "TokenRevokedError"
        /\ (~last.hit /\ ~PassesClaimsValidation) => last.result.kind = "ValidationError"

C1_Witness ==
    /\ Validated
    /\ TokenIdRevoked(last.token)
    /\ last.hit
    /\ last.result.kind = "TokenRevokedError"

\* C2: with default options, validateToken never returns claims whose expiry
\* is earlier than the current time (in seconds), cache hit or miss.
C2_AcceptedNotExpired ==
    (Validated /\ last.options = DefaultOptions /\ last.result.kind = "claims") =>
        ~isExpired(last.result.claims, 0, now)

\* C3: every validateToken call has the outcome (claims or error class) that
\* the authority constructed with the cache disabled gives for the same call.
C3_CacheTransparent ==
    Validated =>
        /\ last.result.kind = last.ref.kind
        /\ last.result.claims = last.ref.claims

\* C4 as stated: once revokeToken(jti, expiresAt) with expiresAt at or after
\* the token's own expiry has completed, no validateToken call with default
\* options returns claims for a token carrying that jti.
C4_RevokedThroughExpiryNeverAccepted ==
    (/\ Validated
     /\ last.options = DefaultOptions
     /\ Decodes(last.token)
     /\ TruthyStr(ClaimsOf(last.token).jti)
     /\ ClaimsOf(last.token).jti[1] \in Jtis
     /\ maxRevoked[ClaimsOf(last.token).jti[1]] >= ClaimsOf(last.token).exp)
        => last.result.kind # "claims"

\* C5 as stated: a validateToken call on a token whose subject is recorded
\* as revoked always raises TokenRevokedError.
C5_SubjectRevokedRaisesRevokedError ==
    (Validated /\ SubjectRevoked(last.token)) => last.result.kind = "TokenRevokedError"

C5_SubjectRevokedOutcome ==
    (Validated /\ SubjectRevoked(last.token)) =>
        /\ last.result.kind # "claims"
        /\ (last.hit \/ PassesClaimsValidation) => last.result.kind = "TokenRevokedError"
        /\ (~last.hit /\ ~PassesClaimsValidation) => last.result.kind = "ValidationError"

\* C5 amended: a subject once revoked stays revoked through every cleanup()
\* and token-level revocation, and a validateToken call on a token of a
\* revoked subject never returns claims; it raises TokenRevokedError when
\* the token was served from the cache or passes claims validation under
\* the options of the call, and the ValidationError of the failing claims
\* check when it missed the cache and fails that validation.
C5_SubjectRevocationPermanent ==
    /\ []C5_SubjectRevokedOutcome
    /\ [][revokedUsers \subseteq revokedUsers']_vars

C5_Witness ==
    /\ Validated
    /\ SubjectRevoked(last.token)
    /\ ~TokenIdRevoked(last.token)
    /\ revokedTokens # <<>>
    /\ last.hit
    /\ last.result.kind = "TokenRevokedError"

\* C6: when a validateToken call has raised TokenRevokedError, the cache
\* holds no entry for the token string of that call.
C6_RevokedNotCached ==
    (Validated /\ last.result.kind = "TokenRevokedError") =>
        last.token \notin CacheKeys(cache)

C6_Witness ==
    /\ Validated
    /\ last.result.kind = "TokenRevokedError"
    /\ ~last.hit
    /\ last.token \notin CacheKeys(cache)

CacheEntries(c) == {c[i] : i \in 1..Len(c)}

C7_InsertedBeforeLookups ==
    (pc = "checkToken" /\ ~call.hit) =>
        /\ call.token \in CacheKeys(cache)
        /\ call.lookups = 0

C7_InsertionStep ==
    (CacheEntries(cache') \ CacheEntries(cache) # {}) =>
        /\ pc = "idle"
        /\ pc' = "checkToken"
        /\ ~call'.hit
        /\ call'.token \notin CacheKeys(cache)
           \/ now > cache[CacheIndex(cache, call'.token)].expiresAt
        /\ parse(call'.token, AuthorityKey, call'.options, now).kind = "claims"
        /\ \A e \in CacheEntries(cache') \ CacheEntries(cache) : e.token = call'.token

C7_FailedCallInsertsNothing ==
    (last'.op = "validateToken" /\ last'.result.kind \in {"TokenInvalidError", "ValidationError"}) =>
        CacheEntries(cache') \subseteq CacheEntries(cache)

\* C7: an entry enters the cache only in the first stretch of a
\* validateToken call that missed the cache and whose decode and claims
\* validation succeeded; it is resident before that call has made any
\* revocation lookup; a call that raises TokenInvalidError or
\* ValidationError adds no entry.
C7_CacheInsertion ==
    /\ []C7_InsertedBeforeLookups
    /\ [][C7_InsertionStep /\ C7_FailedCallInsertsNothing]_vars

C7_Witness ==
    /\ pc = "checkToken"
    /\ ~call.hit
    /\ call.lookups = 0
    /\ call.token \in CacheKeys(cache)
    /\ TruthyStr(call.claims[1].jti)
    /\ revokedTokens # <<>>

(***************************************************************************)
(* Properties of the cache on its own (specification SpecCache).  fill is  *)
(* the set of distinct tokens set, one after the other, since the cache    *)
(* was empty.                                                              *)
(***************************************************************************)
\* C8: with maxSize >= 1 the cache never holds more than maxSize entries,
\* and after maxSize + 1 distinct tokens have been set into an empty cache
\* it holds exactly maxSize entries.
C8_CacheBound ==
    maxSize >= 1 =>
        /\ Len(cache) <= maxSize
        /\ Cardinality(CacheKeys(cache)) = Len(cache)
        /\ Cardinality(fill) = maxSize + 1 => Len(cache) = maxSize

C8_Witness ==
    /\ maxSize = MaxCacheSize
    /\ Cardinality(fill) = maxSize + 1
    /\ Len(cache) = maxSize
    /\ last.evicted # {}

EvictsEarliest ==
    /\ ghost # <<>>
    /\ CacheKeys(cache) \ CacheKeys(cache') = {ghost[1].token}
    /\ Len(cache') = Len(cache)

SetOfNewToken == last'.op = "set" /\ ~last'.hit

GetStepCorrect ==
    LET token == last'.token
        resident == token \in CacheKeys(cache)
        fresh == resident /\ ~(now > GhostAt(ghost, token) + ttl) IN
    /\ last'.result.kind = "claims" <=> fresh
    /\ fresh => /\ last'.result.claims = cache[CacheIndex(cache, token)].claims
                /\ cache' = cache
    /\ ~resident => cache' = cache
    /\ (resident /\ ~fresh) => cache' = SelectSeq(cache, LAMBDA e : e.token # token)

\* C10: get(token) returns the stored claims exactly when token has an entry
\* and the time is not past the time that entry was set plus ttl; past it,
\* get returns nothing and removes that entry and no other.
C10_GetHonoursTtl ==
    [][last'.op = "get" => GetStepCorrect]_vars

C10_Witness ==
    /\ last.op = "get"
    /\ last.result.kind = "none"
    /\ last.evicted = {last.token}
    /\ cache # <<>>

(***************************************************************************)
(* Properties of the revocation store on its own (specification SpecStore).*)
(***************************************************************************)
CleanupStepExact ==
    /\ DOMAIN revokedTokens' = {j \in DOMAIN revokedTokens : revokedTokens[j] >= Seconds(now)}
    /\ \A j \in DOMAIN revokedTokens' : revokedTokens'[j] = revokedTokens[j]
    /\ revokedUsers' = revokedUsers

\* C11: cleanup() removes exactly the token-level entries whose expiresAt is
\* earlier than the current time in seconds and changes no other entry and
\* no subject-level revocation; no revoke, revokeUser or cleanup step takes
\* a subject out of the revoked set.
C11_CleanupExact ==
    /\ [][last'.op = "cleanup" => CleanupStepExact]_vars
    /\ [][revokedUsers \subseteq revokedUsers']_vars

C11_Witness ==
    /\ last.op = "cleanup"
    /\ last.evicted # {}
    /\ \E j \in DOMAIN revokedTokens : revokedTokens[j] = Seconds(now)
    /\ revokedUsers # {}

(***************************************************************************)
(* Properties of concurrent calls (specification SpecConc).                *)
(***************************************************************************)
ReturnsClaims(s) ==
    /\ calls[s].pc # "idle"
    /\ calls'[s].pc = "idle"
    /\ last'.result.kind = "claims"

\* C12: however validateToken, revokeToken, revokeUser and cleanup calls
\* interleave at the awaits, a validateToken call returns claims only if at
\* some instant between its start and its return neither its token id nor
\* its subject was recorded as revoked; the cache never holds more than
\* maxSize entries; and the revocation store equals the store that the
\* store calls give when run one after the other.
C12_ConcurrentCallsSafe ==
    /\ [][\A s \in Slots : ReturnsClaims(s) => calls[s].clean]_vars
    /\ [](Len(cache) <= maxSize /\ Cardinality(CacheKeys(cache)) = Len(cache))
    /\ [](revokedTokens = serial.tokens /\ revokedUsers = serial.users)

C12_Witness ==
    /\ last.op = "validateToken"
    /\ last.result.kind = "claims"
    /\ TokenIdRevoked(last.token)
    /\ \E s \in Slots : calls[s].pc = "awaitIsUserRevoked" /\ calls[s].revoked

(***************************************************************************)
(* Properties of validateClaims (specification SpecValidate).              *)
(***************************************************************************)
\* whether the named check fails for claims c under options o at time t
CheckFails(check, c, o, t) ==
    CASE check = "Token is not yet valid" -> c.nbf # None /\ c.nbf[1] # 0 /\ c.nbf[1] > Seconds(t) + o.clockSkew
      [] check = "Token has expired" -> o.validateExpiry /\ c.exp < Seconds(t) - o.clockSkew
      [] check = "Token issued too long ago" -> o.minIssuedAt # 0 /\ c.iat < o.minIssuedAt
      [] check = "Token audience does not include" -> o.requiredAudience # "" /\ o.requiredAudience \notin c.aud
      [] check = "Token issuer does not match" -> o.requiredIssuer # "" /\ c.iss # <<o.requiredIssuer>>

\* the message of the first check of the order that fails, "" when none does
FirstFailure(order, c, o, t) ==
    LET failing == {i \in 1..Len(order) : CheckFails(order[i], c, o, t)} IN
    IF failing = {} THEN ""
    ELSE order[CHOOSE i \in failing : \A j \in failing : i <= j]

OrderAsStated ==
    <<"Token is not yet valid", "Token has expired", "Token issued too long ago",
      "Token audience does not include", "Token issuer does not match">>

OrderOfTheCode ==
    <<"Token has expired", "Token is not yet valid", "Token issued too long ago",
      "Token audience does not include", "Token issuer does not match">>

ValidateApplied == outcome.kind \in {"void", "ValidationError"}

FailsBothTemporalChecks ==
    /\ CheckFails("Token is not yet valid", args.claims, args.options, outcome.at)
    /\ CheckFails("Token has expired", args.claims, args.options, outcome.at)

\* C13 as stated: validateClaims raises the error of the first failing check
\* in the order not-yet-valid, expired, minimum-issued-at, audience, issuer.
C13_FirstFailureNotBeforeFirst ==
    ValidateApplied =>
        outcome.msg = FirstFailure(OrderAsStated, args.claims, args.options, outcome.at)

\* C13 amended: validateClaims raises ValidationError exactly when a check
\* fails, and the error is that of the first failing check in the order
\* expired (when validateExpiry), not-yet-valid, minimum-issued-at,
\* audience, issuer.
C13_FirstFailureExpiryFirst ==
    ValidateApplied =>
        /\ outcome.msg = FirstFailure(OrderOfTheCode, args.claims, args.options, outcome.at)
        /\ outcome.kind = "ValidationError" <=> outcome.msg # ""

C13_Witness ==
    /\ ValidateApplied
    /\ FailsBothTemporalChecks
    /\ outcome.msg = "Token has expired"

(***************************************************************************)
(* Properties of the builder (specification SpecBuilder).                  *)
(***************************************************************************)
BuildStep == outcome'.op = "build" /\ now' = now

BuiltClaims == outcome.token[1].claims

Elements(list) == {list[i] : i \in 1..Len(list)}

FirstIndex(list, x) == CHOOSE i \in 1..Len(list) : list[i] = x /\ \A j \in 1..(i - 1) : list[j] # x

\* merged holds every entry of source once, in the order of first occurrence
DedupKeepingFirst(merged, source) ==
    /\ Elements(merged) = Elements(source)
    /\ Cardinality(Elements(merged)) = Len(merged)
    /\ \A i, j \in 1..Len(merged) :
          i < j => FirstIndex(source, merged[i]) < FirstIndex(source, merged[j])

OrEmpty(opt) == IF opt = None THEN <<>> ELSE opt[1]

\* C14: the permissions claim of a built token, when present, is the role-
\* table expansion of the roles followed by the explicit permissions, with
\* duplicates dropped keeping the first occurrence, also when no roles or
\* an empty roles list was supplied.
C14_PermissionsAreMerge ==
    [][(BuildStep /\ outcome'.kind = "token" /\ BuiltClaims'.perms # None) =>
          DedupKeepingFirst(BuiltClaims'.perms[1],
                            RolePermsInOrder(OrEmpty(builder.claims.roles), RolePermissions)
                                \o OrEmpty(builder.claims.perms))]_vars

BuilderStep == now' = now

IssuedAtIsConstructionClock ==
    /\ (BuilderStep /\ outcome'.op = "createToken") => builder'.claims.iat = Seconds(now)
    /\ (BuilderStep /\ outcome'.op # "createToken") => builder'.claims.iat = builder.claims.iat
    /\ (BuildStep /\ outcome'.kind = "token") => BuiltClaims'.iat = builder.claims.iat

WellFormedDurations ==
    {[text |-> <<"1", "0", "s">>, n |-> 10, unit |-> "s"],
     [text |-> <<"2", "m">>, n |-> 2, unit |-> "m"],
     [text |-> <<"1", "h">>, n |-> 1, unit |-> "h"],
     [text |-> <<"1", "d">>, n |-> 1, unit |-> "d"],
     [text |-> <<"1", "w">>, n |-> 1, unit |-> "w"]}

UnitSeconds == [s |-> 1, m |-> 60, h |-> 3600, d |-> 86400, w |-> 604800]

IsWellFormed(text) == \E d \in WellFormedDurations : d.text = text

DurationSeconds(text) ==
    LET d == CHOOSE d \in WellFormedDurations : d.text = text IN d.n * UnitSeconds[d.unit]

ExpiresInStep == BuilderStep /\ outcome'.op = "expiresIn"

IllFormedDurationRaises ==
    (ExpiresInStep /\ ~IsWellFormed(outcome'.arg)) =>
        /\ outcome'.kind = "ValidationError"
        /\ builder'.claims.exp = builder.claims.exp

\* C16 as stated: the expiry of a token built after expiresIn("<n><unit>") is
\* the clock at build() plus n times the seconds of the unit; a string not
\* of that form raises ValidationError and leaves the expiry unchanged.
C16_ExpiryRelativeToBuildTime ==
    [][/\ (BuildStep /\ outcome'.kind = "token" /\ builder.duration # None) =>
             BuiltClaims'.exp = Some(Seconds(now) + builder.duration[1])
       /\ (ExpiresInStep /\ IsWellFormed(outcome'.arg)) =>
             builder'.duration = Some(DurationSeconds(outcome'.arg))
       /\ IllFormedDurationRaises]_vars

\* C16 amended: expiresIn("<n><unit>") sets the expiry to the clock at the
\* expiresIn call plus n times the seconds of the unit, and build() puts
\* the builder's expiry into the token as it stands; a string not of that
\* form raises ValidationError and leaves the expiry unchanged.
C16_ExpiryRelativeToCallTime ==
    [][/\ (ExpiresInStep /\ IsWellFormed(outcome'.arg)) =>
             /\ outcome'.kind = "this"
             /\ builder'.claims.exp = Some(Seconds(now) + DurationSeconds(outcome'.arg))
       /\ (BuildStep /\ outcome'.kind = "token") => BuiltClaims'.exp = builder.claims.exp
       /\ IllFormedDurationRaises]_vars

C16_Witness ==
    /\ outcome.op = "build"
    /\ outcome.kind = "token"
    /\ builder.duration = Some(604800)
    /\ BuiltClaims.exp[1] < outcome.at + 604800

(***************************************************************************)
(* Properties of the token string (specification SpecCodec).               *)
(***************************************************************************)
\* the made token was presented as it is, under the key it was made with
ParsedBack ==
    /\ outcome.op = "parseToken"
    /\ probe.edit = "none"
    /\ outcome.key = args.key

\* C17 as stated: parseToken(createToken(c, k, f), k) returns claims
\* deep-equal to c and a footer equal to f, for every claims object c, key k
\* and optional footer f.
C17_RoundTrip ==
    ParsedBack =>
        /\ outcome.result.kind = "ok"
        /\ outcome.result.claims = Some(args.claims)
        /\ outcome.result.footer = args.footer

\* C17: parseToken(createToken(c, k, f), k) returns claims deep-equal to c,
\* and the footer f when f is absent or a non-empty string; an empty string
\* given as footer comes back absent.
C17_RoundTripFooterNonEmpty ==
    ParsedBack =>
        /\ outcome.result.kind = "ok"
        /\ outcome.result.claims = Some(args.claims)
        /\ outcome.result.footer = (IF TruthyChars(args.footer) THEN args.footer ELSE None)

C17_Witness ==
    /\ ParsedBack
    /\ outcome.result.kind = "ok"
    /\ args.footer = Some(<<"f">>)
    /\ outcome.result.footer = Some(<<"f">>)
    /\ \E i \in 1..Len(args.claims.fields) : args.claims.fields[i][2].t = "obj"
    /\ outcome.result.claims = Some(args.claims)

\* C18 as stated: parseToken raises, and returns no claims, whenever the key
\* is not the key the token was made with, or the footer segment of the
\* string was changed, removed or added.
C18_OnlySealingKeyAndFooter ==
    (/\ outcome.op = "parseToken"
     /\ \/ outcome.key # args.key
        \/ probe.edit \in {"footer", "footerRemoved", "footerAdded"})
    => outcome.result.kind = "TokenInvalidError" /\ outcome.result.claims = None

\* C19 as stated: a token string with one character of its payload segment
\* changed makes parseToken raise TokenInvalidError, and no string other
\* than the made token decodes, under the same key, to the claims the made
\* token decodes to.
C19_PayloadTamperRejected ==
    outcome.op = "parseToken" =>
        /\ probe.edit = "payload" => outcome.result.kind = "TokenInvalidError"
        /\ (outcome.result.kind = "ok" /\ probe.token # wire.token) =>
               outcome.result.claims
                   # parseTokenString(wire.token, outcome.key, wire.boxes).claims

\* the string starts with "v4.local." and what follows is one or two
\* non-empty segments separated by a dot
WellFormedToken(token) ==
    /\ Len(token) > Len(HeaderChars)
    /\ SubSeq(token, 1, Len(HeaderChars)) = HeaderChars
    /\ Cardinality({i \in PayloadStart..Len(token) : token[i] = "."}) <= 1
    /\ token[PayloadStart] # "."
    /\ token[Len(token)] # "."

\* C20 as stated: parseToken raises TokenInvalidError, before any
\* decryption, for every string that does not start with "v4.local." or
\* whose remainder is not one or two non-empty segments separated by a dot.
C20_MalformedRejectedBeforeDecryption ==
    (outcome.op = "parseToken" /\ ~WellFormedToken(probe.token)) =>
        outcome.result.kind = "TokenInvalidError" /\ ~outcome.result.opened

\* the error parseToken raises for the made token under another key
WrongKeyError == parseTokenString(wire.token, OtherKey, wire.boxes)

ErrorSeen(result) == <<result.kind, result.msg, result.detail>>

\* C21 as stated: every failure of parseToken past the format checks, under
\* a 32-byte key, is a TokenInvalidError, and the error the caller sees is
\* the same whether the sealed bytes were too short, the key wrong, the
\* payload tampered with or the footer mismatched.
C21_NoFailureOracle ==
    (/\ outcome.op = "parseToken"
     /\ outcome.key.length = KeyBytes
     /\ outcome.result.opened
     /\ outcome.result.kind # "ok")
    => /\ outcome.result.kind = "TokenInvalidError"
       /\ ErrorSeen(outcome.result) = ErrorSeen(WrongKeyError)

(***************************************************************************)
(* Properties of Claims.isExpired (specification SpecExpiry).              *)
(***************************************************************************)
\* C22: isExpired(clockSkew) is true exactly when the whole second of the
\* clock is past expiry + clockSkew: claims expiring one second ago are
\* expired with clockSkew 0 and not with clockSkew 2, claims expiring in the
\* current second are not expired.
C22_ExpiredIffPastExpiryPlusSkew ==
    outcome.op = "isExpired" =>
        /\ outcome.value <=> outcome.at >= (outcome.exp + outcome.clockSkew + 1) * MsPerSecond
        /\ (outcome.exp = Seconds(outcome.at) - 1 /\ outcome.clockSkew = 0) => outcome.value
        /\ (outcome.exp = Seconds(outcome.at) - 1 /\ outcome.clockSkew = 2) => ~outcome.value
        /\ outcome.exp = Seconds(outcome.at) => ~outcome.value

C22_Witness ==
    /\ outcome.op = "isExpired"
    /\ outcome.exp = Seconds(outcome.at) - 1
    /\ outcome.at % MsPerSecond # 0
    /\ outcome.clockSkew = 0
    /\ outcome.value

(***************************************************************************)
(* Properties of the permission functions (specification SpecPermissions). *)
(***************************************************************************)
Posts == <<"p">>
PostsAny == <<"p", ":", "*">>

\* C23: matchPermission(capability, pattern) is true exactly when the
\* pattern equals the capability, or is "*", or ends with ":*" and the
\* capability starts with the pattern less its last character; "p:*"
\* matches "p:x" but neither "x:x" nor "px:x" nor the bare "p".
C23_MatchExactly ==
    outcome.op = "matchPermission" =>
        LET c == outcome.permission
            p == outcome.pattern
            n == Len(p) IN
        /\ outcome.value <=>
              \/ p = c
              \/ p = <<"*">>
              \/ /\ n >= 2
                 /\ p[n - 1] = ":"
                 /\ p[n] = "*"
                 /\ Len(c) >= n - 1
                 /\ \A i \in 1..(n - 1) : c[i] = p[i]
        /\ (p = PostsAny /\ c = <<"p", ":", "x">>) => outcome.value
        /\ (p = PostsAny /\ c \in {<<"x", ":", "x">>, <<"p", "x", ":", "x">>, Posts}) => ~outcome.value

C23_Witness ==
    /\ outcome.op = "matchPermission"
    /\ outcome.pattern = PostsAny
    /\ outcome.permission = <<"p", "x", ":", "x">>
    /\ ~outcome.value

\* C24 as stated: mergePermissions returns the expansion of the role names
\* (in role order, a name the table does not hold adding nothing) followed by
\* the explicit permissions, each entry once at its first occurrence, and
\* merging the result again as explicit permissions returns the same list.
C24_MergeIsOrderedDedup ==
    outcome.op = "mergePermissions" =>
        /\ outcome.kind = "list"
        /\ DedupKeepingFirst(outcome.value,
                             RolePermsInOrder(outcome.roleNames, MergeTable) \o outcome.explicit)
        /\ mergePermissions(outcome.roleNames, outcome.value, MergeTable) = outcome.value

\* the strings ^[a-zA-Z][a-zA-Z0-9_-]*$ matches
IsName(str) ==
    /\ str # <<>>
    /\ str[1] \in {"a", "Z"}
    /\ \A i \in 1..Len(str) : str[i] \in {"a", "Z", "7", "_", "-"}

\* C25: validatePermissionFormat(p) is true exactly for "*", for
\* "<resource>:*" and for "<resource>:<action>" with resource and action
\* names of letters, digits, "_" and "-" that start with a letter; it is
\* false for the empty string, without a colon, with an empty resource or
\* action and with more than one colon.
C25_FormatExactly ==
    outcome.op = "validatePermissionFormat" =>
        LET p == outcome.permission IN
        outcome.value <=>
            \/ p = <<"*">>
            \/ \E i \in 1..Len(p) :
                  /\ p[i] = ":"
                  /\ IsName(SubSeq(p, 1, i - 1))
                  /\ \/ SubSeq(p, i + 1, Len(p)) = <<"*">>
                     \/ IsName(SubSeq(p, i + 1, Len(p)))

C25_Witness ==
    /\ outcome.op = "validatePermissionFormat"
    /\ outcome.permission = <<"a", ":", "Z", "-", "7">>
    /\ outcome.value

PermissionCheck == outcome.op \in {"hasPermission", "hasAnyPermission", "hasAllPermissions"}

\* C28: the permission methods of Claims give what the functions of the
\* permission engine give on the held list; with no held list or an empty
\* one every single check is false, hasAny over an empty request is false
\* and hasAll over an empty request is true.
C28_ClaimsAgreeWithEngine ==
    PermissionCheck =>
        /\ outcome.held # None => outcome.engine = Some(outcome.claims)
        /\ (outcome.op = "hasPermission" /\ outcome.held \in {None, Some(<<>>)})
               => ~outcome.claims
        /\ (outcome.op = "hasAnyPermission" /\ outcome.required = <<>>) => ~outcome.claims
        /\ (outcome.op = "hasAllPermissions" /\ outcome.required = <<>>) => outcome.claims

C28_Witness ==
    /\ outcome.op = "hasAllPermissions"
    /\ outcome.held = Some(<<PostsAny, <<"p", "x", ":", "*">>>>)
    /\ outcome.required = <<<<"p", ":", "w">>, <<"p", "x", ":", "r">>>>
    /\ outcome.claims
    /\ outcome.engine = Some(TRUE)


(***************************************************************************)
(* C27: isTokenValid(token) answers true exactly when validateToken(token) *)
(* with the default options returns claims, answers false without throwing *)
(* when that call fails because the token is revoked or because it has     *)
(* expired, throws again every other failure of that call, and leaves the  *)
(* cache as that call leaves it.                                           *)
(***************************************************************************)
FailsAsExpired(result) == result = Thrown("ValidationError", "Token has expired")

FailsAsRevoked(result) == result.kind = "TokenRevokedError"

C27_IsTokenValidAnswers ==
    [][\A token \in Tokens : IsTokenValidOp(token) =>
          LET v == validateToken(ThisAuthority, token, DefaultOptions, now) IN
          /\ (last'.result = Answered(TRUE)) <=> (v.result.kind = "claims")
          /\ FailsAsRevoked(v.result) \/ FailsAsExpired(v.result) => last'.result = Answered(FALSE)
          /\ v.result.kind # "claims" /\ ~FailsAsRevoked(v.result) /\ ~FailsAsExpired(v.result)
                 => last'.result = v.result
          /\ cache' = v.cache]_vars

(***************************************************************************)
(* C26: the authenticated-data encoding of a list of byte strings is the   *)
(* count as 8 little-endian bytes, then for each element in order its      *)
(* length as 8 little-endian bytes and its bytes; the list can be read     *)
(* back from the encoding, so no two lists have the same encoding; and     *)
(* encryptLocal and decryptLocal both compute it over "v4.local.", the     *)
(* nonce, the footer and the empty implicit assertion, in that order.      *)
(***************************************************************************)
\* the number eight little-endian bytes stand for, -1 beyond three bytes
LittleEndianValue(bytes) ==
    IF \E i \in 4..8 : bytes[i] # 0 THEN -1
    ELSE bytes[1] + (256 * bytes[2]) + (65536 * bytes[3])

RECURSIVE PaeOffset(_, _)
PaeOffset(pieces, k) ==
    IF k = 1 THEN 8 ELSE PaeOffset(pieces, k - 1) + 8 + Len(pieces[k - 1])

HasPaeFormat(encoded, pieces) ==
    /\ Len(encoded) = PaeOffset(pieces, Len(pieces) + 1)
    /\ LittleEndianValue(SubSeq(encoded, 1, 8)) = Len(pieces)
    /\ \A k \in 1..Len(pieces) :
          LET at == PaeOffset(pieces, k) IN
          /\ LittleEndianValue(SubSeq(encoded, at + 1, at + 8)) = Len(pieces[k])
          /\ SubSeq(encoded, at + 9, at + 8 + Len(pieces[k])) = pieces[k]

\* reading count length-prefixed elements off the front of bytes
RECURSIVE PaeRead(_, _)
PaeRead(bytes, count) ==
    IF count = 0 THEN <<>>
    ELSE LET length == LittleEndianValue(SubSeq(bytes, 1, 8)) IN
         <<SubSeq(bytes, 9, 8 + length)>>
         \o PaeRead(SubSeq(bytes, 9 + length, Len(bytes)), count - 1)

PaeDecode(encoded) ==
    PaeRead(SubSeq(encoded, 9, Len(encoded)), LittleEndianValue(SubSeq(encoded, 1, 8)))

LocalPieces(nonce, footer) == <<TextEncode(HeaderChars), nonce, footer, <<>>>>

C26_PaeCanonical ==
    /\ outcome.op = "preAuthEncode" =>
          /\ HasPaeFormat(outcome.encoded, outcome.pieces)
          /\ PaeDecode(outcome.encoded) = outcome.pieces
    /\ outcome.op = "sealThenOpen" =>
          /\ HasPaeFormat(outcome.box.aad, LocalPieces(outcome.nonce, outcome.footer))
          /\ outcome.opened.ok <=> outcome.presented = outcome.footer
          /\ outcome.opened.ok => outcome.opened.bytes = outcome.message

C26_Witness ==
    /\ outcome.op = "preAuthEncode"
    /\ outcome.pieces = <<<<>>, <<8, 0>>>>
    /\ Len(outcome.encoded) = 26

(***************************************************************************)
(* C29: TokenCache.set for a token that is already resident evicts no      *)
(* other entry: the resident tokens stay the same, and no set lowers the   *)
(* number of resident entries, also at capacity.                           *)
(***************************************************************************)
C29_SetOfResidentEvictsNothing ==
    [][\A token \in Tokens : CacheSetOp(token) =>
          /\ token \in CacheKeys(cache) => CacheKeys(cache') = CacheKeys(cache)
          /\ Len(cache') >= Len(cache)]_vars

(***************************************************************************)
(* C30: a password reset token authorises at most one password change.  A  *)
(* confirm request made with a token that another confirm request has      *)
(* already changed a password with changes no password, and one that ends  *)
(* after another confirm request with the same token was answered success  *)
(* ends with 'Invalid reset token', however the requests interleave at     *)
(* their awaits.                                                           *)
(***************************************************************************)
Succeeded(r) == requests[r].response = Response(TRUE, "")

OthersWith(r) == {o \in ResetRequests \ {r} : requests[o].token = requests[r].token}

C30_OneChangePerResetToken ==
    [][\A r \in ResetRequests :
          /\ ConfirmUpdatePassword(r) /\ (\E o \in OthersWith(r) : requests[o].changed)
                 => ~requests'[r].changed
          /\ /\ requests[r].pc \notin {"none", "done"}
             /\ requests'[r].pc = "done"
             /\ \E o \in OthersWith(r) : Succeeded(o)
             => requests'[r].response = Response(FALSE, "Invalid reset token")]_vars
====
